---- MODULE Spec2Model ----
(***************************************************************************)
(* A model of the chess rules engine: Square, Piece, Board, the move       *)
(* geometry of moves.py, the FEN codec of fen.py and the Game orchestrator *)
(* of game.py.  Strings (FEN, UCI, algebraic squares) are sequences of     *)
(* one-character strings, so that encoding and decoding are computed.      *)
(***************************************************************************)
EXTENDS Integers, Sequences, FiniteSets, TLC

VARIABLES board, moves, history, state, players, status, last, request, record, calls

vars == <<board, moves, history, state, players, status, last, request, record, calls>>

None == "None"

\* None where the value would be a square or a string (a sequence)
NoSquare == <<>>

\* None where the value would be a piece
NoPiece == [type |-> "None", color |-> "None"]

-----------------------------------------------------------------------------
(* Text helpers: Python str operations on sequences of characters.         *)

DigitChars == <<"0", "1", "2", "3", "4", "5", "6", "7", "8", "9">>

FileChars == <<"a", "b", "c", "d", "e", "f", "g", "h">>

PieceLetters == {"p", "n", "b", "r", "q", "k"}

UpperLetters == {"P", "N", "B", "R", "Q", "K"}

isdigit(c) == \E i \in 1..10 : DigitChars[i] = c

DigitValue(c) == (CHOOSE i \in 1..10 : DigitChars[i] = c) - 1

\* str.isalpha() on the characters that occur in the model's strings
isalpha(c) == c \in PieceLetters \cup UpperLetters \cup {"a", "c", "d", "e", "f", "g", "h", "w"}

isupper(c) == c \in UpperLetters

lower(c) ==
    CASE c = "P" -> "p" [] c = "N" -> "n" [] c = "B" -> "b"
      [] c = "R" -> "r" [] c = "Q" -> "q" [] c = "K" -> "k"
      [] OTHER -> c

upper(c) ==
    CASE c = "p" -> "P" [] c = "n" -> "N" [] c = "b" -> "B"
      [] c = "r" -> "R" [] c = "q" -> "Q" [] c = "k" -> "K"
      [] OTHER -> c

\* str.isdigit(): non-empty and every character a digit
IsDigitString(s) == Len(s) > 0 /\ \A i \in 1..Len(s) : isdigit(s[i])

RECURSIVE ParseInt(_)
\* int(s) for a digit string
ParseInt(s) ==
    IF Len(s) = 0 THEN 0
    ELSE 10 * ParseInt(SubSeq(s, 1, Len(s) - 1)) + DigitValue(s[Len(s)])

RECURSIVE IntToStr(_)
\* str(n) for n >= 0
IntToStr(n) ==
    IF n < 10 THEN <<DigitChars[n + 1]>>
    ELSE IntToStr(n \div 10) \o <<DigitChars[(n % 10) + 1]>>

\* the position of the k-th separator of s; 0 before the first, Len(s) + 1 after the last
SplitFrom(s, sep, k, seps) ==
    IF k = 0 THEN 0
    ELSE IF k > Cardinality(seps) THEN Len(s) + 1
    ELSE CHOOSE i \in seps : Cardinality({j \in seps : j <= i}) = k

\* str.split(sep)
Split(s, sep) ==
    LET seps == {i \in 1..Len(s) : s[i] = sep} IN
    [k \in 1..(Cardinality(seps) + 1) |->
        SubSeq(s, SplitFrom(s, sep, k - 1, seps) + 1, SplitFrom(s, sep, k, seps) - 1)]

RECURSIVE Join(_, _)
\* sep.join(parts)
Join(parts, sep) ==
    IF Len(parts) = 0 THEN <<>>
    ELSE IF Len(parts) = 1 THEN parts[1]
    ELSE parts[1] \o <<sep>> \o Join(Tail(parts), sep)

RECURSIVE Flatten(_)
\* concatenation of a list of lists
Flatten(ss) == IF Len(ss) = 0 THEN <<>> ELSE ss[1] \o Flatten(Tail(ss))

-----------------------------------------------------------------------------
(* square.py                                                               *)

BOARD_DIMENSIONS == <<8, 8>>

Square(file, rank) == <<file, rank>>

Squares == (1..BOARD_DIMENSIONS[1]) \X (1..BOARD_DIMENSIONS[2])

is_within_bounds(sq) ==
    /\ 1 <= sq[1] /\ sq[1] <= BOARD_DIMENSIONS[1]
    /\ 1 <= sq[2] /\ sq[2] <= BOARD_DIMENSIONS[2]

\* ord(sq[0]) - ord("a") + 1 for the file letters a..h; int(sq[1]) for the rank
from_algebraic(sq) ==
    Square(CHOOSE f \in 1..8 : FileChars[f] = sq[1], DigitValue(sq[2]))

to_algebraic(sq) == <<FileChars[sq[1]]>> \o IntToStr(sq[2])

-----------------------------------------------------------------------------
(* pieces.py                                                               *)

WHITE == "WHITE"
BLACK == "BLACK"
NONE == "NONE"

EMPTY == "EMPTY"
PAWN == "PAWN"
KNIGHT == "KNIGHT"
BISHOP == "BISHOP"
ROOK == "ROOK"
QUEEN == "QUEEN"
KING == "KING"

Piece(type, color) == [type |-> type, color |-> color]

EmptyPiece == Piece(EMPTY, NONE)

FEN_TO_PIECE(c) ==
    CASE c = "p" -> PAWN [] c = "n" -> KNIGHT [] c = "b" -> BISHOP
      [] c = "r" -> ROOK [] c = "q" -> QUEEN [] c = "k" -> KING

PIECE_TO_FEN(t) ==
    CASE t = PAWN -> "p" [] t = KNIGHT -> "n" [] t = BISHOP -> "b"
      [] t = ROOK -> "r" [] t = QUEEN -> "q" [] t = KING -> "k"

Piece_from_fen(c) ==
    Piece(FEN_TO_PIECE(lower(c)), IF isupper(c) THEN WHITE ELSE BLACK)

Piece_to_fen(p) ==
    IF p.color = WHITE THEN upper(PIECE_TO_FEN(p.type)) ELSE lower(PIECE_TO_FEN(p.type))

OppositeColor(c) == IF c = BLACK THEN WHITE ELSE BLACK

-----------------------------------------------------------------------------
(* board.py: the codec of the piece-placement field                        *)

RECURSIVE Repeat(_, _)
Repeat(x, n) == IF n <= 0 THEN <<>> ELSE <<x>> \o Repeat(x, n - 1)

RECURSIVE RankPieces(_)
\* the pieces one rank of the placement field decodes to, file a first
RankPieces(rank_fen) ==
    IF Len(rank_fen) = 0 THEN <<>>
    ELSE (IF isalpha(rank_fen[1])
          THEN <<Piece_from_fen(rank_fen[1])>>
          ELSE Repeat(EmptyPiece, DigitValue(rank_fen[1])))
         \o RankPieces(Tail(rank_fen))

Board_from_fen(fen_str) ==
    LET fen_by_ranks == Split(fen_str, "/")
        decoded == [i \in 1..Len(fen_by_ranks) |-> RankPieces(fen_by_ranks[i])]
    IN [file \in 1..BOARD_DIMENSIONS[1] |->
          [rank \in 1..BOARD_DIMENSIONS[2] |-> decoded[BOARD_DIMENSIONS[2] - rank + 1][file]]]

\* Board.position is keyed by square: the board is indexed by file, then rank
HasSquare(b, square) == square[1] \in DOMAIN b /\ square[2] \in DOMAIN b[square[1]]

\* Board.piece(square)
piece(b, square) == b[square[1]][square[2]]

RECURSIVE RankToFenFrom(_, _, _, _)
RankToFenFrom(b, rank, file, empty_count) ==
    IF file > BOARD_DIMENSIONS[1]
    THEN IF empty_count > 0 THEN IntToStr(empty_count) ELSE <<>>
    ELSE LET occupant == piece(b, Square(file, rank)) IN
         IF occupant.type # EMPTY
         THEN (IF empty_count > 0 THEN IntToStr(empty_count) ELSE <<>>)
              \o <<Piece_to_fen(occupant)>> \o RankToFenFrom(b, rank, file + 1, 0)
         ELSE RankToFenFrom(b, rank, file + 1, empty_count + 1)

rank_to_fen(b, rank) == RankToFenFrom(b, rank, 1, 0)

Board_to_fen(b) ==
    Join([i \in 1..BOARD_DIMENSIONS[2] |-> rank_to_fen(b, BOARD_DIMENSIONS[2] - i + 1)], "/")

\* the iteration order of Board.position: rank 8 first, file a first
SquareOrder ==
    [i \in 1..64 |-> Square(((i - 1) % 8) + 1, 8 - ((i - 1) \div 8))]

locate_color(b, color) == SelectSeq(SquareOrder, LAMBDA sq : piece(b, sq).color = color)

locate_pieces(b, type) == SelectSeq(SquareOrder, LAMBDA sq : piece(b, sq).type = type)

\* Board.move_piece: unconditional relocation
move_piece(b, from_square, to_square) ==
    LET moving == piece(b, from_square)
        lifted == [b EXCEPT ![from_square[1]][from_square[2]] = EmptyPiece]
    IN [lifted EXCEPT ![to_square[1]][to_square[2]] = moving]

-----------------------------------------------------------------------------
(* Results of calls that can raise: err is None or the exception's name.   *)

Ok(v) == [err |-> None, val |-> v]

Raise(e) == [err |-> e, val |-> <<>>]

\* a list comprehension, evaluated to a list
Listed(items) == items \o <<>>

\* the fault of the first call of a comprehension that raised
FirstFault(results) ==
    results[CHOOSE i \in 1..Len(results) :
                /\ results[i].err # None
                /\ \A j \in 1..(i - 1) : results[j].err = None].err

\* the lists the calls returned, joined; the first fault if one raised
Collect(results) ==
    IF \E i \in 1..Len(results) : results[i].err # None
    THEN Raise(FirstFault(results))
    ELSE Ok(Flatten([i \in 1..Len(results) |-> results[i].val]))

KeyError == "KeyError"
KingSquareError == "KingSquareError"
InvalidFENError == "InvalidFENError"
GameStateError == "GameStateError"
NotYourTurnError == "NotYourTurnError"
IllegalMoveError == "IllegalMoveError"

-----------------------------------------------------------------------------
(* moves.py: movement rules                                                *)

Move(from_square, to_square, promote_to, castling_direction, is_en_passant) ==
    [from_square |-> from_square, to_square |-> to_square, promote_to |-> promote_to,
     castling_direction |-> castling_direction, is_en_passant |-> is_en_passant]

PlainMove(from_square, to_square) == Move(from_square, to_square, None, None, FALSE)

Move_to_uci(m) ==
    to_algebraic(m.from_square) \o to_algebraic(m.to_square)
    \o (IF m.promote_to # None THEN <<PIECE_TO_FEN(m.promote_to)>> ELSE <<>>)

RECURSIVE RayMoves(_, _, _, _, _)
\* a ray that takes in the first occupied square whichever side holds it
RayMovesOntoAnyPiece(square, b, dir, cur, opponent_color) ==
    LET target_square == Square(cur[1] + dir[1], cur[2] + dir[2]) IN
    IF ~is_within_bounds(target_square) THEN <<>>
    ELSE IF piece(b, target_square).type # EMPTY
         THEN <<PlainMove(square, target_square)>>
         ELSE <<PlainMove(square, target_square)>>
              \o RayMoves(square, b, dir, target_square, opponent_color)

\* one direction of raycasting_move, walking from cur (exclusive)
RayMoves(square, b, dir, cur, opponent_color) ==
    LET target_square == Square(cur[1] + dir[1], cur[2] + dir[2]) IN
    IF ~is_within_bounds(target_square) THEN <<>>
    ELSE IF piece(b, target_square).type # EMPTY
         THEN IF piece(b, target_square).color = opponent_color
              THEN <<PlainMove(square, target_square)>>
              ELSE <<>>
         ELSE <<PlainMove(square, target_square)>>
              \o RayMoves(square, b, dir, target_square, opponent_color)

raycasting_move(square, b, directions) ==
    LET player_color == piece(b, square).color
        opponent_color == IF player_color = BLACK THEN WHITE ELSE BLACK
    IN Flatten([i \in 1..Len(directions) |->
                    RayMoves(square, b, directions[i], square, opponent_color)])

single_step_move(square, b, deltas) ==
    Flatten([i \in 1..Len(deltas) |->
        LET target_square == Square(square[1] + deltas[i][1], square[2] + deltas[i][2]) IN
        IF ~is_within_bounds(target_square) THEN <<>>
        ELSE IF piece(b, target_square).color # piece(b, square).color
             THEN <<PlainMove(square, target_square)>>
             ELSE <<>>])

PawnPushDeltas(color) == IF color = WHITE THEN <<<<0, 1>>>> ELSE <<<<0, -1>>>>

PawnTakeDeltas(color) ==
    IF color = WHITE THEN <<<<1, 1>>, <<-1, 1>>>> ELSE <<<<1, -1>>, <<-1, -1>>>>

\* the board is read at the capture square before the bounds test
candidate_pawn_moves(square, b) ==
    LET color == piece(b, square).color
        pawn_takes == PawnTakeDeltas(color)
        opponent_color == IF color = BLACK THEN WHITE ELSE BLACK
        target(i) == Square(square[1] + pawn_takes[i][1], square[2] + pawn_takes[i][2])
    IN IF \E i \in 1..Len(pawn_takes) : ~HasSquare(b, target(i))
       THEN Raise(KeyError)
       ELSE Ok(single_step_move(square, b, PawnPushDeltas(color))
               \o Flatten([i \in 1..Len(pawn_takes) |->
                     IF is_within_bounds(target(i)) /\ piece(b, target(i)).color = opponent_color
                     THEN <<PlainMove(square, target(i))>>
                     ELSE <<>>]))

KnightDeltas ==
    <<<<2, 1>>, <<2, -1>>, <<-2, 1>>, <<-2, -1>>, <<1, 2>>, <<1, -2>>, <<-1, 2>>, <<-1, -2>>>>

KingDeltas ==
    <<<<0, 1>>, <<0, -1>>, <<1, 0>>, <<-1, 0>>, <<1, 1>>, <<1, -1>>, <<-1, 1>>, <<-1, -1>>>>

Diagonals == <<<<1, 1>>, <<-1, 1>>, <<1, -1>>, <<-1, -1>>>>

StayOnRank == <<<<1, 0>>, <<-1, 0>>>>

StayOnFile == <<<<0, 1>>, <<0, -1>>>>

candidate_knight_moves(square, b) == single_step_move(square, b, KnightDeltas)

candidate_bishop_moves(square, b) == raycasting_move(square, b, Diagonals)

candidate_rook_moves(square, b) ==
    raycasting_move(square, b, StayOnRank) \o raycasting_move(square, b, StayOnFile)

candidate_queen_moves(square, b) ==
    candidate_bishop_moves(square, b) \o candidate_rook_moves(square, b)

candidate_king_moves(square, b) == single_step_move(square, b, KingDeltas)

MOVEMENT_RULES(piece_type, square, b) ==
    CASE piece_type = PAWN -> candidate_pawn_moves(square, b)
      [] piece_type = KNIGHT -> Ok(candidate_knight_moves(square, b))
      [] piece_type = BISHOP -> Ok(candidate_bishop_moves(square, b))
      [] piece_type = ROOK -> Ok(candidate_rook_moves(square, b))
      [] piece_type = QUEEN -> Ok(candidate_queen_moves(square, b))
      [] piece_type = KING -> Ok(candidate_king_moves(square, b))

\* the movement rule of each piece on the given squares
MovesOfPieces(b, squares) ==
    Listed([i \in 1..Len(squares) |-> MOVEMENT_RULES(piece(b, squares[i]).type, squares[i], b)])

\* Board.generate_candidate_moves: pseudo-legal moves of every piece of the color
generate_candidate_moves(b, color) == Collect(MovesOfPieces(b, locate_color(b, color)))

-----------------------------------------------------------------------------
(* moves.py: attack rules                                                  *)

RECURSIVE RayHit(_, _, _)
\* the first occupied square's piece along a direction, EmptyPiece at the edge
RayHit(b, cur, dir) ==
    LET target_square == Square(cur[1] + dir[1], cur[2] + dir[2]) IN
    IF ~is_within_bounds(target_square) THEN EmptyPiece
    ELSE IF piece(b, target_square).type # EMPTY THEN piece(b, target_square)
    ELSE RayHit(b, target_square, dir)

raycasting_attack(square, by_color, by_piece_type, b, directions) ==
    \E i \in 1..Len(directions) :
        RayHit(b, square, directions[i]) = Piece(by_piece_type, by_color)

single_step_attack(square, by_color, by_piece_type, b, deltas) ==
    \E i \in 1..Len(deltas) :
        LET target_square == Square(square[1] + deltas[i][1], square[2] + deltas[i][2]) IN
        /\ is_within_bounds(target_square)
        /\ piece(b, target_square) = Piece(by_piece_type, by_color)

is_attacked_by_pawn(square, by_color, b) ==
    single_step_attack(square, by_color, PAWN, b,
        IF by_color = WHITE THEN <<<<1, -1>>, <<-1, -1>>>> ELSE <<<<1, 1>>, <<-1, 1>>>>)

is_attacked_by_knight(square, by_color, b) ==
    single_step_attack(square, by_color, KNIGHT, b, KnightDeltas)

is_attacked_by_bishop(square, by_color, b) ==
    raycasting_attack(square, by_color, BISHOP, b, Diagonals)

is_attacked_by_rook(square, by_color, b) ==
    raycasting_attack(square, by_color, ROOK, b, StayOnRank \o StayOnFile)

is_attacked_by_queen(square, by_color, b) ==
    \/ raycasting_attack(square, by_color, QUEEN, b, StayOnRank \o StayOnFile)
    \/ raycasting_attack(square, by_color, QUEEN, b, Diagonals)

is_attacked_by_king(square, by_color, b) ==
    single_step_attack(square, by_color, KING, b, KingDeltas)

ATTACK_RULES(piece_type, square, by_color, b) ==
    CASE piece_type = PAWN -> is_attacked_by_pawn(square, by_color, b)
      [] piece_type = KNIGHT -> is_attacked_by_knight(square, by_color, b)
      [] piece_type = BISHOP -> is_attacked_by_bishop(square, by_color, b)
      [] piece_type = ROOK -> is_attacked_by_rook(square, by_color, b)
      [] piece_type = QUEEN -> is_attacked_by_queen(square, by_color, b)
      [] piece_type = KING -> is_attacked_by_king(square, by_color, b)

PieceTypes == {PAWN, KNIGHT, BISHOP, ROOK, QUEEN, KING}

-----------------------------------------------------------------------------
(* Board queries used by Game (check and attack detection)                 *)

\* Board.is_square_attacked: any kind's attack rule reports an attacker
is_square_attacked(b, square, by_color) ==
    \E piece_type \in PieceTypes : ATTACK_RULES(piece_type, square, by_color, b)

\* Board.king_square: exactly one king of the color, a fault otherwise
king_square(b, color) ==
    LET found == SelectSeq(SquareOrder, LAMBDA sq : piece(b, sq) = Piece(KING, color)) IN
    IF Len(found) = 1 THEN Ok(found[1]) ELSE Raise(KingSquareError)

\* Board.is_check
is_check(b, color) ==
    LET ksq == king_square(b, color) IN
    IF ksq.err # None THEN Raise(ksq.err)
    ELSE Ok(is_square_attacked(b, ksq.val, OppositeColor(color)))

is_any_occupied(b, path) == \E i \in 1..Len(path) : piece(b, path[i]).type # EMPTY

is_any_under_attack(b, path, by_color) ==
    \E i \in 1..Len(path) : is_square_attacked(b, path[i], by_color)

remove_piece(b, square) == [b EXCEPT ![square[1]][square[2]] = EmptyPiece]

promote_piece(b, square, to) == [b EXCEPT ![square[1]][square[2]] = Piece(to, piece(b, square).color)]

-----------------------------------------------------------------------------
(* castling.py and the castling helpers of moves.py                        *)

WHITE_KING_SIDE == "K"
WHITE_QUEEN_SIDE == "Q"
BLACK_KING_SIDE == "k"
BLACK_QUEEN_SIDE == "q"

\* the members of the CastlingDirection enum, in definition order
CastlingDirection ==
    <<WHITE_KING_SIDE, WHITE_QUEEN_SIDE, BLACK_KING_SIDE, BLACK_QUEEN_SIDE>>

CastlingSquares(k_from, k_to, r_from, r_to) ==
    [king_from |-> from_algebraic(k_from), king_to |-> from_algebraic(k_to),
     rook_from |-> from_algebraic(r_from), rook_to |-> from_algebraic(r_to)]

CASTLING_RULES(direction) ==
    CASE direction = WHITE_KING_SIDE ->
            CastlingSquares(<<"e", "1">>, <<"g", "1">>, <<"h", "1">>, <<"f", "1">>)
      [] direction = WHITE_QUEEN_SIDE ->
            CastlingSquares(<<"e", "1">>, <<"c", "1">>, <<"a", "1">>, <<"d", "1">>)
      [] direction = BLACK_KING_SIDE ->
            CastlingSquares(<<"e", "8">>, <<"g", "8">>, <<"h", "8">>, <<"f", "8">>)
      [] direction = BLACK_QUEEN_SIDE ->
            CastlingSquares(<<"e", "8">>, <<"c", "8">>, <<"a", "8">>, <<"d", "8">>)

castling_king_squares(direction) ==
    <<CASTLING_RULES(direction).king_from, CASTLING_RULES(direction).king_to>>

castling_rook_squares(direction) ==
    <<CASTLING_RULES(direction).rook_from, CASTLING_RULES(direction).rook_to>>

ValueError == "ValueError"
NonTermination == "NonTermination"

RECURSIVE SquaresBetweenFrom(_, _, _)
SquaresBetweenFrom(square, to_square, df) ==
    LET try_square == Square(square[1] + df, square[2]) IN
    IF try_square = to_square THEN <<>>
    ELSE <<try_square>> \o SquaresBetweenFrom(try_square, to_square, df)

\* the loop ends only when the walk meets to_square: called on one square twice,
\* the difference in files is 0, the walk goes left from the square and never meets
\* it, and the call does not return
squares_between_on_rank(from_square, to_square) ==
    IF from_square[2] # to_square[2] THEN Raise(ValueError)
    ELSE LET difference_in_files == to_square[1] - from_square[1]
             df == IF difference_in_files > 0 THEN 1 ELSE -1
         IN IF difference_in_files = 0 THEN Raise(NonTermination)
            ELSE Ok(SquaresBetweenFrom(from_square, to_square, df))

\* the squares strictly between the king's and the rook's home squares
castling_path(direction) ==
    squares_between_on_rank(CASTLING_RULES(direction).king_from,
                            CASTLING_RULES(direction).rook_from).val

candidate_castling_move(direction) ==
    Move(castling_king_squares(direction)[1], castling_king_squares(direction)[2],
         None, direction, FALSE)

\* en_passant_moves: the board is read beside the target without a bounds test
en_passant_moves(en_passant_square, color, b) ==
    LET opposite_direction == IF color = WHITE THEN -1 ELSE 1
        dfs == <<-1, 1>>
        maybe_pawn_square(i) ==
            Square(en_passant_square[1] + dfs[i], en_passant_square[2] + opposite_direction)
    IN IF \E i \in 1..2 : ~HasSquare(b, maybe_pawn_square(i))
       THEN Raise(KeyError)
       ELSE Ok(Flatten([i \in 1..2 |->
                IF piece(b, maybe_pawn_square(i)) = Piece(PAWN, color)
                THEN <<Move(maybe_pawn_square(i), en_passant_square, None, None, TRUE)>>
                ELSE <<>>]))

PROMOTION_OPTIONS == <<KNIGHT, BISHOP, ROOK, QUEEN>>

is_pawn_push_to_promotion_square(move, b) ==
    /\ piece(b, move.from_square).type = PAWN
    /\ move.to_square[2] \in {1, BOARD_DIMENSIONS[2]}

pawn_pushes_w_promotion(pawn_push) ==
    [i \in 1..Len(PROMOTION_OPTIONS) |->
        Move(pawn_push.from_square, pawn_push.to_square, PROMOTION_OPTIONS[i], None, FALSE)]

\* AcceptedMove.from_move_and_board: the moving and the captured piece before the move
AcceptedMove_from_move_and_board(move, b) ==
    [move |-> move,
     moving_piece |-> piece(b, move.from_square),
     captured_piece |-> IF piece(b, move.to_square).type # EMPTY THEN piece(b, move.to_square) ELSE NoPiece]

-----------------------------------------------------------------------------
(* fen.py                                                                  *)

VALID_CASTLING_ENCODINGS ==
    { <<"-">>, <<"K">>, <<"Q">>, <<"k">>, <<"q">>, <<"K", "Q">>, <<"K", "k">>, <<"K", "q">>,
      <<"Q", "k">>, <<"Q", "q">>, <<"k", "q">>, <<"K", "Q", "k">>, <<"K", "Q", "q">>,
      <<"K", "k", "q">>, <<"Q", "k", "q">>, <<"K", "Q", "k", "q">> }

CASTLING_ENCODING_ORDER ==
    <<WHITE_KING_SIDE, WHITE_QUEEN_SIDE, BLACK_KING_SIDE, BLACK_QUEEN_SIDE>>

castling_from_fen(castle_fen) ==
    [direction \in {"K", "Q", "k", "q"} |->
        \E i \in 1..Len(castle_fen) : castle_fen[i] = direction]

castling_to_fen(castling_rights) ==
    LET castling_chars ==
            SelectSeq(CASTLING_ENCODING_ORDER, LAMBDA direction : castling_rights[direction])
    IN IF Len(castling_chars) = 0 THEN <<"-">> ELSE castling_chars

RECURSIVE RankFileCount(_)
\* the file count of one rank, -1 when a character is neither digit nor piece letter
RankFileCount(rank_fen) ==
    IF Len(rank_fen) = 0 THEN 0
    ELSE LET rest == RankFileCount(Tail(rank_fen))
             character == rank_fen[1]
         IN IF isdigit(character)
            THEN IF rest < 0 THEN -1 ELSE DigitValue(character) + rest
            ELSE IF lower(character) \in PieceLetters
            THEN IF rest < 0 THEN -1 ELSE 1 + rest
            ELSE -1

\* a bad character anywhere before a bad count decides first; both answer False
is_valid_position(position) ==
    LET rank_fens == Split(position, "/") IN
    /\ Len(rank_fens) = BOARD_DIMENSIONS[2]
    /\ \A i \in 1..Len(rank_fens) : RankFileCount(rank_fens[i]) = BOARD_DIMENSIONS[1]

is_valid_color_code(color) == color \in {<<"w">>, <<"b">>}

is_valid_castling_rights(castling) == castling \in VALID_CASTLING_ENCODINGS

IndexError == "IndexError"

\* square[0] raises on the empty string
is_valid_square(square) ==
    IF Len(square) = 0 THEN Raise(IndexError)
    ELSE LET file_char == square[1]
             rank_char == Tail(square)
         IN Ok(/\ \E f \in 1..BOARD_DIMENSIONS[1] : FileChars[f] = file_char
               /\ IsDigitString(rank_char)
               /\ 1 <= ParseInt(rank_char)
               /\ ParseInt(rank_char) <= BOARD_DIMENSIONS[2])

is_valid_en_passant(en_passant) ==
    IF en_passant = <<"-">> THEN Ok(TRUE) ELSE is_valid_square(en_passant)

is_valid_move_counter(counter) == IsDigitString(counter)

is_valid_fen(fen) ==
    LET parts == Split(fen, " ") IN
    IF Len(parts) # 6 THEN Ok(FALSE)
    ELSE IF ~is_valid_position(parts[1]) THEN Ok(FALSE)
    ELSE IF ~is_valid_color_code(parts[2]) THEN Ok(FALSE)
    ELSE IF ~is_valid_castling_rights(parts[3]) THEN Ok(FALSE)
    ELSE IF is_valid_en_passant(parts[4]).err # None THEN Raise(is_valid_en_passant(parts[4]).err)
    ELSE IF ~is_valid_en_passant(parts[4]).val THEN Ok(FALSE)
    ELSE Ok(is_valid_move_counter(parts[5]) /\ is_valid_move_counter(parts[6]))

FENState(position, color_to_move, castling_rights, en_passant_square, half_move_clock, num_turns) ==
    [position |-> position, color_to_move |-> color_to_move,
     castling_rights |-> castling_rights, en_passant_square |-> en_passant_square,
     half_move_clock |-> half_move_clock, num_turns |-> num_turns]

FENState_from_fen(fen) ==
    LET valid == is_valid_fen(fen)
        parts == Split(fen, " ")
    IN IF valid.err # None THEN Raise(valid.err)
       ELSE IF ~valid.val THEN Raise(InvalidFENError)
       ELSE Ok(FENState(parts[1],
                        IF parts[2] = <<"w">> THEN WHITE ELSE BLACK,
                        castling_from_fen(parts[3]),
                        IF parts[4] # <<"-">> THEN from_algebraic(parts[4]) ELSE NoSquare,
                        ParseInt(parts[5]),
                        ParseInt(parts[6])))

FENState_to_fen(st) ==
    Join(<<st.position,
           IF st.color_to_move = WHITE THEN <<"w">> ELSE <<"b">>,
           castling_to_fen(st.castling_rights),
           IF st.en_passant_square # NoSquare THEN to_algebraic(st.en_passant_square) ELSE <<"-">>,
           IntToStr(st.half_move_clock),
           IntToStr(st.num_turns)>>, " ")

\* the directions whose name contains the color's name
castling_options(color) ==
    CASE color = WHITE -> <<WHITE_KING_SIDE, WHITE_QUEEN_SIDE>>
      [] color = BLACK -> <<BLACK_KING_SIDE, BLACK_QUEEN_SIDE>>
      [] OTHER -> <<>>

\* the rights rebuilt from the direction alone: every other right comes back
revoke_castling_rights_rebuilt(st, direction) ==
    [st EXCEPT !.castling_rights = [d \in DOMAIN @ |-> d # direction]]

\* FENState.revoke_castling_rights
revoke_castling_rights(st, direction) ==
    [st EXCEPT !.castling_rights[direction] = FALSE]

revoke_all_castling_rights(st, color) ==
    LET castling_opts == castling_options(color)
        one == revoke_castling_rights(st, castling_opts[1])
    IN revoke_castling_rights(one, castling_opts[2])

can_castle(st, color) ==
    \E i \in 1..Len(castling_options(color)) : st.castling_rights[castling_options(color)[i]]

repetition_key(st) ==
    <<st.position,
      IF st.color_to_move = WHITE THEN "w" ELSE "b",
      castling_to_fen(st.castling_rights),
      IF st.en_passant_square # NoSquare THEN to_algebraic(st.en_passant_square) ELSE <<"-">>>>

\* variant: the counters compared too
is_same_state(st, other) == st = other

is_same_position(st, other) == repetition_key(st) = repetition_key(other)

-----------------------------------------------------------------------------
(* shared_types.py: Status                                                 *)

WAITING_FOR_PLAYERS == "waiting for players"
IN_PROGRESS == "in progress"
CHECKMATE == "checkmate"
STALEMATE == "stalemate"
DRAW_REPETITION == "draw by repetition"
DRAW_FIFTY_HALF_MOVE_RULE == "draw by 50 half-moves"

TerminalStatuses == {CHECKMATE, STALEMATE, DRAW_REPETITION, DRAW_FIFTY_HALF_MOVE_RULE}

-----------------------------------------------------------------------------
(* game.py: Game.  players is the insertion-ordered dict color -> name, a   *)
(* sequence of <<color, name>> pairs.                                      *)

PlayerColors(pl) == {pl[i][1] : i \in 1..Len(pl)}

\* self.players[color]
PlayerOf(pl, color) == pl[CHOOSE i \in 1..Len(pl) : pl[i][1] = color][2]

\* self.players.update({color: player})
PlayersUpdate(pl, color, player) ==
    IF color \in PlayerColors(pl)
    THEN [i \in 1..Len(pl) |-> IF pl[i][1] = color THEN <<color, player>> ELSE pl[i]]
    ELSE Append(pl, <<color, player>>)

\* variant: whoever registered first is on turn
get_turn_player_first(st, pl) == pl[1][2]

get_turn_player(st, pl) == PlayerOf(pl, st.color_to_move)

\* the first color, in insertion order, registered under that name
get_player_color(pl, player) ==
    pl[CHOOSE i \in 1..Len(pl) :
          /\ pl[i][2] = player
          /\ \A j \in 1..(i - 1) : pl[j][2] # player][1]

get_turn_player_color(st, pl) == get_player_color(pl, get_turn_player(st, pl))

get_opponent_color(st, pl) ==
    IF get_turn_player_color(st, pl) = BLACK THEN WHITE ELSE BLACK

\* variant: the player of the side to move
winner_side_to_move(st, pl, stat) ==
    IF stat # CHECKMATE THEN None ELSE PlayerOf(pl, st.color_to_move)

winner(st, pl, stat) ==
    IF stat # CHECKMATE THEN None
    ELSE IF st.color_to_move = BLACK THEN PlayerOf(pl, WHITE) ELSE PlayerOf(pl, BLACK)

\* variant: the king moves and the rook stays at home
move_castling_pieces_king_only(b, direction) ==
    move_piece(b, CASTLING_RULES(direction).king_from, CASTLING_RULES(direction).king_to)

move_castling_pieces(b, direction) ==
    LET squares == CASTLING_RULES(direction)
        king_moved == move_piece(b, squares.king_from, squares.king_to)
    IN move_piece(king_moved, squares.rook_from, squares.rook_to)

\* variant: the pawn moves diagonally and the passed pawn stays
move_en_passant_pieces_without_taking(b, st, move) ==
    move_piece(b, move.from_square, move.to_square)

move_en_passant_pieces(b, st, move) ==
    LET moved == move_piece(b, move.from_square, move.to_square)
        take_square == Square(st.en_passant_square[1], move.from_square[2])
    IN remove_piece(moved, take_square)

\* the board a candidate is played on: castling moves both pieces, every other
\* move one piece
PlayedOn(b, move) ==
    IF move.castling_direction # None
    THEN move_castling_pieces(b, move.castling_direction)
    ELSE move_piece(b, move.from_square, move.to_square)

\* variant: the candidate is played on the board of the game itself
SimulatedBoardsInPlace(b, move) ==
    [scratch |-> PlayedOn(b, move), held |-> PlayedOn(b, move)]

\* the check simulation plays the candidate on a deep copy: scratch is the copy
\* after the move, held is the board the game keeps
SimulatedBoards(b, move) ==
    [scratch |-> PlayedOn(b, move), held |-> b]

\* Game._is_putting_yourself_in_check
is_putting_yourself_in_check(b, st, pl, move) ==
    is_check(SimulatedBoards(b, move).scratch, get_turn_player_color(st, pl))

has_castling_rights(st, direction) == st.castling_rights[direction]

\* variant: only the squares the king crosses or lands on are tested for attack
CastlingDirectionsKingSquares(b, st, player_color, opponent_color, in_check) ==
    IF in_check.err # None THEN Raise(in_check.err)
    ELSE IF in_check.val THEN Ok(<<>>)
    ELSE IF ~can_castle(st, player_color) THEN Ok(<<>>)
    ELSE Ok(SelectSeq(castling_options(player_color), LAMBDA direction :
               /\ has_castling_rights(st, direction)
               /\ ~is_any_occupied(b, castling_path(direction))
               /\ ~is_any_under_attack(b,
                      squares_between_on_rank(CASTLING_RULES(direction).king_from,
                                              CASTLING_RULES(direction).king_to).val
                      \o <<CASTLING_RULES(direction).king_to>>,
                      opponent_color)))

CastlingDirectionsWhen(b, st, player_color, opponent_color, in_check) ==
    IF in_check.err # None THEN Raise(in_check.err)
    ELSE IF in_check.val THEN Ok(<<>>)
    ELSE IF ~can_castle(st, player_color) THEN Ok(<<>>)
    ELSE Ok(SelectSeq(castling_options(player_color), LAMBDA direction :
               /\ has_castling_rights(st, direction)
               /\ ~is_any_occupied(b, castling_path(direction))
               /\ ~is_any_under_attack(b, castling_path(direction), opponent_color)))

\* Game._legal_castling_directions
legal_castling_directions(b, st, pl) ==
    CastlingDirectionsWhen(b, st, get_turn_player_color(st, pl), get_opponent_color(st, pl),
                           is_check(b, get_turn_player_color(st, pl)))

CastlingMovesOf(dirs) ==
    IF dirs.err # None THEN Raise(dirs.err)
    ELSE Ok([i \in 1..Len(dirs.val) |-> candidate_castling_move(dirs.val[i])])

\* Game._generate_castling_moves
generate_castling_moves(b, st, pl) == CastlingMovesOf(legal_castling_directions(b, st, pl))

generate_en_passant_moves(b, st, pl) ==
    en_passant_moves(st.en_passant_square, get_turn_player_color(st, pl), b)

expand_pawn_promotion_moves(pawn_push) == pawn_pushes_w_promotion(pawn_push)

\* one candidate through the check filter, then the promotion expansion
LegalFromCandidate(b, move, in_check) ==
    IF in_check.err # None THEN Raise(in_check.err)
    ELSE IF in_check.val THEN Ok(<<>>)
    ELSE IF is_pawn_push_to_promotion_square(move, b) THEN Ok(expand_pawn_promotion_moves(move))
    ELSE Ok(<<move>>)

FilterLegal(b, st, pl, candidate_moves) ==
    Collect(Listed([i \in 1..Len(candidate_moves) |->
        LegalFromCandidate(b, candidate_moves[i],
                           is_putting_yourself_in_check(b, st, pl, candidate_moves[i]))]))

LegalFromParts(b, st, pl, candidate, castling, en_passant) ==
    IF candidate.err # None THEN Raise(candidate.err)
    ELSE IF castling.err # None THEN Raise(castling.err)
    ELSE IF en_passant.err # None THEN Raise(en_passant.err)
    ELSE FilterLegal(b, st, pl, candidate.val \o castling.val \o en_passant.val)

RECURSIVE HeldAfterSimulations(_, _)
\* the board the game holds after the check simulation of each candidate in turn;
\* the held board of a simulation is compared before the next candidate is taken
HeldAfterSimulations(b, candidate_moves) ==
    IF Len(candidate_moves) = 0 THEN b
    ELSE LET held == SimulatedBoards(b, Head(candidate_moves)).held IN
         IF held = b THEN HeldAfterSimulations(b, Tail(candidate_moves))
         ELSE HeldAfterSimulations(held, Tail(candidate_moves))

HeldAfterParts(b, candidate, castling, en_passant) ==
    IF candidate.err # None \/ castling.err # None \/ en_passant.err # None THEN b
    ELSE HeldAfterSimulations(b, candidate.val \o castling.val \o en_passant.val)

\* the board the game holds after Game._generate_legal_moves(color): the
\* candidates are only read from it and each is simulated in turn
BoardAfterGeneration(b, st, pl, color) ==
    HeldAfterParts(b, generate_candidate_moves(b, color), generate_castling_moves(b, st, pl),
                   IF st.en_passant_square # NoSquare
                   THEN generate_en_passant_moves(b, st, pl)
                   ELSE Ok(<<>>))

\* Game._generate_legal_moves(color)
generate_legal_moves(b, st, pl, color) ==
    LegalFromParts(b, st, pl, generate_candidate_moves(b, color), generate_castling_moves(b, st, pl),
                   IF st.en_passant_square # NoSquare
                   THEN generate_en_passant_moves(b, st, pl)
                   ELSE Ok(<<>>))

-----------------------------------------------------------------------------
(* game.py: move execution                                                 *)

is_castling_move(am) == am.move.castling_direction # None

is_king_move(am) == am.moving_piece.type = KING

is_rook_move(am) == am.moving_piece.type = ROOK

is_pawn_move(am) == am.moving_piece.type = PAWN

is_capture(am) == am.captured_piece # NoPiece

is_half_move(am) == ~is_pawn_move(am) /\ ~is_capture(am)

is_opponent_rook_capture(st, pl, am) ==
    am.captured_piece = Piece(ROOK, get_opponent_color(st, pl))

promote_pawn(b, am) == promote_piece(b, am.move.to_square, am.move.promote_to)

\* Game._update_board
update_board(b, st, am) ==
    LET relocated ==
            IF am.move.castling_direction # None
            THEN move_castling_pieces(b, am.move.castling_direction)
            ELSE IF am.move.is_en_passant
            THEN move_en_passant_pieces(b, st, am.move)
            ELSE move_piece(b, am.move.from_square, am.move.to_square)
    IN IF am.move.promote_to # None THEN promote_pawn(relocated, am) ELSE relocated

\* the first direction of the color whose rook home square is the given square
RookHomeDirections(color, square) ==
    SelectSeq(castling_options(color),
              LAMBDA direction : castling_rook_squares(direction)[1] = square)

RevokeAllIf(needed, st, color) ==
    IF needed THEN revoke_all_castling_rights(st, color) ELSE st

RevokeFirstIf(needed, st, directions) ==
    IF needed /\ Len(directions) > 0 THEN revoke_castling_rights(st, directions[1]) ELSE st

\* the four revocation rules in order, the rights held read before the first
RevokeSteps(st, am, player_color, opponent_color, player_has_rights, opponent_has_rights, rook_taken) ==
    RevokeFirstIf(opponent_has_rights /\ rook_taken,
        RevokeFirstIf(player_has_rights /\ is_rook_move(am),
            RevokeAllIf(player_has_rights /\ is_king_move(am),
                RevokeAllIf(player_has_rights /\ is_castling_move(am), st, player_color),
                player_color),
            RookHomeDirections(player_color, am.move.from_square)),
        RookHomeDirections(opponent_color, am.move.to_square))

\* variant: a captured rook costs the opponent nothing
revoke_castling_rights_of_mover_only(st, pl, am) ==
    RevokeSteps(st, am, get_turn_player_color(st, pl), get_opponent_color(st, pl),
                can_castle(st, get_turn_player_color(st, pl)),
                can_castle(st, get_opponent_color(st, pl)),
                FALSE)

\* Game._revoke_castling_rights_if_needed
revoke_castling_rights_if_needed(st, pl, am) ==
    RevokeSteps(st, am, get_turn_player_color(st, pl), get_opponent_color(st, pl),
                can_castle(st, get_turn_player_color(st, pl)),
                can_castle(st, get_opponent_color(st, pl)),
                is_opponent_rook_capture(st, pl, am))

\* variant: every pawn move leaves a target behind the pawn
determine_en_passant_square_after_any_pawn_move(st, pl, am) ==
    IF is_pawn_move(am)
    THEN to_algebraic(Square(am.move.from_square[1], am.move.from_square[2]))
    ELSE NoSquare

\* Game._determine_en_passant_square: an algebraic square or None
determine_en_passant_square(st, pl, am) ==
    LET from_rank == am.move.from_square[2]
        to_rank == am.move.to_square[2]
        ranks_moved == IF from_rank >= to_rank THEN from_rank - to_rank ELSE to_rank - from_rank
        direction == IF get_turn_player_color(st, pl) = WHITE THEN 1 ELSE -1
    IN IF is_pawn_move(am) /\ ranks_moved = 2
       THEN to_algebraic(Square(am.move.from_square[1], from_rank + direction))
       ELSE NoSquare

\* variant: the full-move number counts every move
FenCountedEveryMove(revoked, player_color, ep_square, half_move) ==
    [revoked EXCEPT
        !.en_passant_square = IF ep_square # NoSquare THEN from_algebraic(ep_square) ELSE NoSquare,
        !.half_move_clock = IF half_move THEN @ + 1 ELSE 0,
        !.num_turns = @ + 1,
        !.color_to_move = IF player_color = BLACK THEN WHITE ELSE BLACK]

FenCounted(revoked, player_color, ep_square, half_move) ==
    [revoked EXCEPT
        !.en_passant_square = IF ep_square # NoSquare THEN from_algebraic(ep_square) ELSE NoSquare,
        !.half_move_clock = IF half_move THEN @ + 1 ELSE 0,
        !.num_turns = IF player_color = BLACK THEN @ + 1 ELSE @,
        !.color_to_move = IF player_color = BLACK THEN WHITE ELSE BLACK]

FenAfterRevocation(revoked, pl, am) ==
    FenCounted(revoked, get_turn_player_color(revoked, pl),
               determine_en_passant_square(revoked, pl, am), is_half_move(am))

\* Game._update_fen_state, called with the board already updated
update_fen_state(b, st, pl, am) ==
    FenAfterRevocation(
        revoke_castling_rights_if_needed([st EXCEPT !.position = Board_to_fen(b)], pl, am), pl, am)

-----------------------------------------------------------------------------
(* game.py: end of game                                                    *)

FiftyMoveLimit == 50

HasMoveOf(legal) ==
    IF legal.err # None THEN Raise(legal.err) ELSE Ok(Len(legal.val) > 0)

\* Game._has_legal_move
has_legal_move(b, st, pl, color) == HasMoveOf(generate_legal_moves(b, st, pl, color))

\* in check as wanted and without a legal move; the move list is built only then
NoMoveWhen(in_check, wanted, has_move) ==
    IF in_check.err # None THEN Raise(in_check.err)
    ELSE IF in_check.val # wanted THEN Ok(FALSE)
    ELSE IF has_move.err # None THEN Raise(has_move.err)
    ELSE Ok(~has_move.val)

\* Game._is_check_mate
is_check_mate(b, st, pl, color) ==
    NoMoveWhen(is_check(b, color), TRUE, has_legal_move(b, st, pl, color))

\* Game._is_stale_mate
is_stale_mate(b, st, pl, color) ==
    NoMoveWhen(is_check(b, color), FALSE, has_legal_move(b, st, pl, color))

RECURSIVE ThreeFoldFrom(_, _, _, _)

ThreeFoldCounted(st, hist, i, new_count) ==
    IF new_count >= 2 THEN Ok(TRUE) ELSE ThreeFoldFrom(st, hist, i + 1, new_count)

ThreeFoldParsed(st, hist, i, count, previous_fen) ==
    IF previous_fen.err # None THEN Raise(previous_fen.err)
    ELSE ThreeFoldCounted(st, hist, i,
            IF is_same_position(st, previous_fen.val) THEN count + 1 ELSE count)

\* the loop over the history log, count carried along
ThreeFoldFrom(st, hist, i, count) ==
    IF i > Len(hist) THEN Ok(FALSE)
    ELSE ThreeFoldParsed(st, hist, i, count, FENState_from_fen(hist[i]))

is_three_fold_repetition(st, hist) == ThreeFoldFrom(st, hist, 1, 0)

is_half_move_clock_draw(st) == st.half_move_clock >= FiftyMoveLimit

\* variant: a condition that does not hold puts the game back to waiting
OverwriteReset(holds, new_status, old_status) ==
    IF holds THEN new_status ELSE WAITING_FOR_PLAYERS

Overwrite(holds, new_status, old_status) == IF holds THEN new_status ELSE old_status

\* the four checks in order, each that holds overwriting the status; a fault leaves
\* the status as assigned so far
StatusAfter(stat, mate, stale, rep, fifty) ==
    IF mate.err # None THEN [err |-> mate.err, val |-> stat]
    ELSE IF stale.err # None
    THEN [err |-> stale.err, val |-> Overwrite(mate.val, CHECKMATE, stat)]
    ELSE IF rep.err # None
    THEN [err |-> rep.err,
          val |-> Overwrite(stale.val, STALEMATE, Overwrite(mate.val, CHECKMATE, stat))]
    ELSE [err |-> None,
          val |-> Overwrite(fifty, DRAW_FIFTY_HALF_MOVE_RULE,
                    Overwrite(rep.val, DRAW_REPETITION,
                      Overwrite(stale.val, STALEMATE, Overwrite(mate.val, CHECKMATE, stat))))]

\* Game._update_game_status
update_game_status(b, st, hist, pl, stat) ==
    StatusAfter(stat,
                is_check_mate(b, st, pl, get_turn_player_color(st, pl)),
                is_stale_mate(b, st, pl, get_turn_player_color(st, pl)),
                is_three_fold_repetition(st, hist),
                is_half_move_clock_draw(st))

-----------------------------------------------------------------------------
(* Bounds and inputs                                                       *)

\* moves are submitted while the full-move number is below this cap
MaxTurns == 5

\* and while the move log is shorter than this
MaxLog == 8

Names == {"ann", "bob"}

\* who creates the game
Creators == {"ann"}

ColorNames == {"white", "black"}

STARTING_FEN ==
    <<"r", "n", "b", "q", "k", "b", "n", "r", "/", "p", "p", "p", "p", "p", "p", "p", "p", "/",
      "8", "/", "8", "/", "8", "/", "8", "/",
      "P", "P", "P", "P", "P", "P", "P", "P", "/", "R", "N", "B", "Q", "K", "B", "N", "R",
      " ", "w", " ", "K", "Q", "k", "q", " ", "-", " ", "0", " ", "1">>

\* 7k/8/8/KPp4r/8/8/8/8 w - c6 0 4
EnPassantPinFen ==
    <<"7", "k", "/", "8", "/", "8", "/", "K", "P", "p", "4", "r", "/", "8", "/", "8", "/",
      "8", "/", "8", " ", "w", " ", "-", " ", "c", "6", " ", "0", " ", "4">>

\* k7/8/K7/8/8/8/8/7R w - - 0 1
RookEndingFen ==
    <<"k", "7", "/", "8", "/", "K", "7", "/", "8", "/", "8", "/", "8", "/", "8", "/",
      "7", "R", " ", "w", " ", "-", " ", "-", " ", "0", " ", "1">>

\* k7/8/K7/8/8/8/8/7R w - - 49 4
RookEndingLateFen ==
    <<"k", "7", "/", "8", "/", "K", "7", "/", "8", "/", "8", "/", "8", "/", "8", "/",
      "7", "R", " ", "w", " ", "-", " ", "-", " ", "4", "9", " ", "4">>

\* r3k2r/8/8/8/8/8/8/R3K2R w KQkq - 0 4
CastlingFen ==
    <<"r", "3", "k", "2", "r", "/", "8", "/", "8", "/", "8", "/", "8", "/", "8", "/", "8", "/",
      "R", "3", "K", "2", "R", " ", "w", " ", "K", "Q", "k", "q", " ", "-", " ", "0", " ", "4">>

\* 4k3/p7/8/8/8/8/8/4K3 w - - 49 4
EdgePawnFen ==
    <<"4", "k", "3", "/", "p", "7", "/", "8", "/", "8", "/", "8", "/", "8", "/", "8", "/",
      "4", "K", "3", " ", "w", " ", "-", " ", "-", " ", "4", "9", " ", "4">>

\* 1r2k3/8/8/8/8/8/8/R3K3 w Q - 0 4
KnightSquareAttackedFen ==
    <<"1", "r", "2", "k", "3", "/", "8", "/", "8", "/", "8", "/", "8", "/", "8", "/", "8", "/",
      "R", "3", "K", "3", " ", "w", " ", "Q", " ", "-", " ", "0", " ", "4">>

\* 8/P7/8/8/8/8/8/k6K w - - 0 1
PromotionEdgeFen ==
    <<"8", "/", "P", "7", "/", "8", "/", "8", "/", "8", "/", "8", "/", "8", "/", "k", "6", "K", " ", "w", " ", "-", " ", "-", " ", "0", " ", "1">>

\* 8/4P3/8/8/8/8/8/k6K w - - 0 1
PromotionFen ==
    <<"8", "/", "4", "P", "3", "/", "8", "/", "8", "/", "8", "/", "8", "/", "8", "/", "k", "6", "K", " ", "w", " ", "-", " ", "-", " ", "0", " ", "1">>

\* 7k/8/8/KPp5/8/8/8/8 w - - 0 4
PawnsAbreastFen ==
    <<"7", "k", "/", "8", "/", "8", "/", "K", "P", "p", "5", "/", "8", "/", "8", "/", "8", "/", "8", " ", "w", " ", "-", " ", "-", " ", "0", " ", "4">>

\* 4k3/8/8/4p3/4P3/8/8/4K3 w - - 0 4
PawnsFacingFen ==
    <<"4", "k", "3", "/", "8", "/", "8", "/", "4", "p", "3", "/", "4", "P", "3", "/", "8", "/", "8", "/",
      "4", "K", "3", " ", "w", " ", "-", " ", "-", " ", "0", " ", "4">>

\* 4k2r/4P3/8/8/8/8/8/4K3 w k - 0 4
PawnFacingKingFen ==
    <<"4", "k", "2", "r", "/", "4", "P", "3", "/", "8", "/", "8", "/", "8", "/", "8", "/", "8", "/",
      "4", "K", "3", " ", "w", " ", "k", " ", "-", " ", "0", " ", "4">>

StartingFens ==
    {STARTING_FEN, EnPassantPinFen, RookEndingFen, RookEndingLateFen, CastlingFen, EdgePawnFen,
     KnightSquareAttackedFen, PromotionEdgeFen, PromotionFen, PawnsAbreastFen, PawnsFacingFen,
     PawnFacingKingFen}

Uci(f1, r1, f2, r2) == <<f1, r1, f2, r2>>

\* build_uci with a promotion kind
UciPromoting(f1, r1, f2, r2, kind) == Uci(f1, r1, f2, r2) \o <<kind>>

\* the UCI strings the players submit
MoveInputs ==
    { Uci("e", "2", "e", "5"), Uci("b", "5", "c", "6"), Uci("h", "5", "a", "5"),
      Uci("h", "1", "h", "8"), Uci("h", "1", "b", "1"),
      Uci("a", "6", "a", "5"), Uci("a", "5", "a", "6"),
      Uci("a", "8", "b", "8"), Uci("b", "8", "a", "8"),
      Uci("e", "1", "g", "1"), Uci("e", "1", "c", "1"),
      Uci("e", "8", "g", "8"), Uci("e", "8", "c", "8"),
      Uci("e", "1", "e", "2"), Uci("e", "4", "e", "5"),
      Uci("e", "7", "e", "8"), UciPromoting("e", "7", "e", "8", "q"),
      UciPromoting("e", "7", "e", "8", "n"), UciPromoting("a", "7", "a", "8", "q") }

-----------------------------------------------------------------------------
(* The game as a state machine                                             *)

\* what the last call was, who made it and how it ended
Outcome(op, player, err, accepted) ==
    [op |-> op, player |-> player, err |-> err, accepted |-> accepted]

\* FENState.starting_position
starting_position == FENState_from_fen(STARTING_FEN).val

\* no text: None, and the empty string, which Python tests take alike
NoText == <<>>

InvalidRequestError == "InvalidRequestError"

\* Game.new_game(player, color, starting_fen)
new_game(player, color, starting_fen) ==
    LET parsed == IF Len(starting_fen) > 0
                  THEN FENState_from_fen(starting_fen).val
                  ELSE starting_position
    IN
    /\ state = parsed
    /\ board = Board_from_fen(parsed.position)
    /\ moves = <<>>
    /\ history = <<>>
    /\ players = <<<<IF color = "white" THEN WHITE ELSE BLACK, player>>>>
    /\ status = WAITING_FOR_PLAYERS
    /\ last = Outcome("new_game", player, None, FALSE)

\* api/models.py: CreateGameRequest, the field starting_fen as its validator leaves
\* it: the validator raises on a text that has not six parts and returns nothing
\* otherwise
RECURSIVE str_lstrip(_)
str_lstrip(s) == IF Len(s) > 0 /\ s[1] = " " THEN str_lstrip(Tail(s)) ELSE s

RECURSIVE str_rstrip(_)
str_rstrip(s) ==
    IF Len(s) > 0 /\ s[Len(s)] = " " THEN str_rstrip(SubSeq(s, 1, Len(s) - 1)) ELSE s

\* str.strip() for the blank character
str_strip(s) == str_rstrip(str_lstrip(s))

validate_starting_fen(value) ==
    IF Len(value) = 0 THEN Ok(value)
    ELSE IF Len(Split(str_strip(value), " ")) # 6 THEN Raise(InvalidRequestError)
    ELSE Ok(NoText)

CreateGameRequest(player_name, color, starting_fen) ==
    [player_name |-> player_name, color |-> color, starting_fen |-> starting_fen]

\* the game is held by its caller: no record of it is stored and no service call
\* is under way
NoServiceCalls ==
    /\ record = <<>>
    /\ calls = <<>>

\* a game made by Game.new_game, called with what the request names
Init ==
    \E player \in Creators, color \in ColorNames, starting_fen \in StartingFens :
        /\ FENState_from_fen(starting_fen).err = None
        /\ new_game(player, color, starting_fen)
        /\ request = CreateGameRequest(player, color, starting_fen)
        /\ NoServiceCalls

\* variant: the caller takes the side of the player already registered
register_player_same_side(player) ==
    IF status # WAITING_FOR_PLAYERS
    THEN /\ last' = Outcome("register_player", player, GameStateError, FALSE)
         /\ UNCHANGED <<board, moves, history, state, players, status>>
    ELSE /\ players' = PlayersUpdate(players, players[1][1], player)
         /\ status' = IN_PROGRESS
         /\ last' = Outcome("register_player", player, None, FALSE)
         /\ UNCHANGED <<board, moves, history, state>>

\* Game.register_player(player)
register_player(player) ==
    IF status # WAITING_FOR_PLAYERS
    THEN /\ last' = Outcome("register_player", player, GameStateError, FALSE)
         /\ UNCHANGED <<board, moves, history, state, players, status>>
    ELSE LET opponent_color == players[1][1]
             player_color == IF opponent_color = BLACK THEN WHITE ELSE BLACK
         IN /\ players' = PlayersUpdate(players, player_color, player)
            /\ status' = IN_PROGRESS
            /\ last' = Outcome("register_player", player, None, FALSE)
            /\ UNCHANGED <<board, moves, history, state>>

UcisOf(legal) ==
    IF legal.err # None THEN Raise(legal.err)
    ELSE Ok([i \in 1..Len(legal.val) |-> Move_to_uci(legal.val[i])])

\* the outcome of Game.legal_moves(player): an error name or the list of UCI strings
legal_moves_result(b, st, pl, stat, player) ==
    IF stat # IN_PROGRESS THEN Raise(GameStateError)
    ELSE IF player # get_turn_player(st, pl) THEN Raise(NotYourTurnError)
    ELSE UcisOf(generate_legal_moves(b, st, pl, get_player_color(pl, player)))

\* Game.legal_moves(player)
legal_moves(player) ==
    /\ last' = Outcome("legal_moves", player,
                       legal_moves_result(board, state, players, status, player).err, FALSE)
    /\ board' = IF status # IN_PROGRESS \/ player # get_turn_player(state, players)
                THEN board
                ELSE BoardAfterGeneration(board, state, players,
                                          get_player_color(players, player))
    /\ UNCHANGED <<moves, history, state, players, status>>

GameOf(b, mv, hist, st, stat) ==
    [board |-> b, moves |-> mv, history |-> hist, state |-> st, status |-> stat]

Rejected(b, mv, hist, st, stat, err) ==
    [game |-> GameOf(b, mv, hist, st, stat), err |-> err, accepted |-> FALSE]

\* accepted: the status evaluation ends the call
AcceptedWithStatus(b, mv, hist, st, new_status) ==
    [game |-> GameOf(b, mv, hist, st, new_status.val), err |-> new_status.err, accepted |-> TRUE]

\* accepted: the move log, then the status
AcceptedInState(mv, new_history, pl, stat, am, new_board, new_state) ==
    AcceptedWithStatus(new_board, Append(mv, am.move), new_history, new_state,
                       update_game_status(new_board, new_state, new_history, pl, stat))

\* accepted: the FEN state follows the board
AcceptedOnBoard(mv, new_history, st, pl, stat, am, new_board) ==
    AcceptedInState(mv, new_history, pl, stat, am, new_board,
                    update_fen_state(new_board, st, pl, am))

\* variant: the history takes the FEN of the state after the move
AcceptedLoggingAfter(b, mv, hist, st, pl, stat, am) ==
    AcceptedOnBoard(mv,
                    Append(hist, FENState_to_fen(update_fen_state(update_board(b, st, am), st, pl, am))),
                    st, pl, stat, am, update_board(b, st, am))

\* accepted: the current FEN joins the history first, then the board is updated
Accepted(b, mv, hist, st, pl, stat, am) ==
    AcceptedOnBoard(mv, Append(hist, FENState_to_fen(st)), st, pl, stat, am,
                    update_board(b, st, am))

\* the submitted move against the legal moves whose UCI string equals it
Submitted(b, mv, hist, st, pl, stat, matching) ==
    IF Len(matching) = 0 THEN Rejected(b, mv, hist, st, stat, IllegalMoveError)
    ELSE Accepted(b, mv, hist, st, pl, stat, AcceptedMove_from_move_and_board(matching[1], b))

\* Game.make_move behind the status and turn checks: the game after the call
make_move_result(b, mv, hist, st, pl, stat, legal, move_uci) ==
    IF legal.err # None THEN Rejected(b, mv, hist, st, stat, legal.err)
    ELSE Submitted(b, mv, hist, st, pl, stat,
                   SelectSeq(legal.val, LAMBDA m : Move_to_uci(m) = move_uci))

\* Game.make_move(move_uci, player), the submitted move drawn from MoveInputs
make_move(player) ==
    IF status # IN_PROGRESS
    THEN /\ last' = Outcome("make_move", player, GameStateError, FALSE)
         /\ UNCHANGED <<board, moves, history, state, players, status>>
    ELSE IF player # get_turn_player(state, players)
    THEN /\ last' = Outcome("make_move", player, NotYourTurnError, FALSE)
         /\ UNCHANGED <<board, moves, history, state, players, status>>
    ELSE \E legal \in {generate_legal_moves(board, state, players, get_player_color(players, player))} :
         \E move_uci \in MoveInputs :
         \E res \in {make_move_result(board, moves, history, state, players, status, legal, move_uci)} :
            /\ board' = res.game.board
            /\ moves' = res.game.moves
            /\ history' = res.game.history
            /\ state' = res.game.state
            /\ status' = res.game.status
            /\ last' = Outcome("make_move", player, res.err, res.accepted)
            /\ UNCHANGED players

RegisterPlayer ==
    /\ \E player \in Names : register_player(player)
    /\ UNCHANGED <<request, record, calls>>

LegalMoves ==
    /\ \E player \in Names : legal_moves(player)
    /\ UNCHANGED <<request, record, calls>>

MakeMove ==
    /\ state.num_turns < MaxTurns
    /\ Len(moves) < MaxLog
    /\ \E player \in Names : make_move(player)
    /\ UNCHANGED <<request, record, calls>>

Next == RegisterPlayer \/ LegalMoves \/ MakeMove

Spec == Init /\ [][Next]_vars

-----------------------------------------------------------------------------
(* Games created from position texts of every accepted shape               *)

\* two kings on their home squares
BareKings == <<"4", "k", "3", "/", "8", "/", "8", "/", "8", "/", "8", "/", "8", "/", "8", "/", "4", "K", "3">>

\* the same position, the empty seventh rank written as two runs of four
SplitRunKings == <<"4", "k", "3", "/", "4", "4", "/", "8", "/", "8", "/", "8", "/", "8", "/", "8", "/", "4", "K", "3">>

PositionTexts == {BareKings, SplitRunKings}

ColorTexts == {<<"w">>, <<"b">>, <<"x">>}

CastlingTexts == {<<"-">>, <<"K", "Q", "k", "q">>, <<"K", "q">>, <<"q", "K">>}

EnPassantTexts == {<<"-">>, <<"e", "3">>, <<"e", "0", "3">>, <<"e", "9">>}

HalfMoveTexts == {<<"0">>, <<"0", "0">>, <<"1", "2">>, <<"x">>}

FullMoveTexts == {<<"1">>, <<"0", "1">>}

\* the six fields joined by single spaces
FenOf(position, color, castling, en_passant, half_move, full_move) ==
    Join(<<position, color, castling, en_passant, half_move, full_move>>, " ")

CreateFens ==
    {FenOf(position, color, castling, en_passant, half_move, full_move) :
        position \in PositionTexts, color \in ColorTexts, castling \in CastlingTexts,
        en_passant \in EnPassantTexts, half_move \in HalfMoveTexts,
        full_move \in FullMoveTexts}

\* Game.new_game on each text that FENState.from_fen takes
InitCreate ==
    \E player \in Creators, color \in ColorNames, starting_fen \in CreateFens :
        /\ FENState_from_fen(starting_fen).err = None
        /\ new_game(player, color, starting_fen)
        /\ request = CreateGameRequest(player, color, starting_fen)
        /\ NoServiceCalls

NextCreate == RegisterPlayer \/ LegalMoves

SpecCreate == InitCreate /\ [][NextCreate]_vars

-----------------------------------------------------------------------------
(* game.py and models.py: the record GameModel that carries a game between *)
(* the layers, and the two conversions.                                    *)

LowerAlphabet ==
    <<"a", "b", "c", "d", "e", "f", "g", "h", "i", "j", "k", "l", "m",
      "n", "o", "p", "q", "r", "s", "t", "u", "v", "w", "x", "y", "z">>

UpperAlphabet ==
    <<"A", "B", "C", "D", "E", "F", "G", "H", "I", "J", "K", "L", "M",
      "N", "O", "P", "Q", "R", "S", "T", "U", "V", "W", "X", "Y", "Z">>

\* str.upper(): letters a..z raised, every other character kept
str_upper(s) ==
    [i \in 1..Len(s) |->
        IF \E k \in 1..26 : LowerAlphabet[k] = s[i]
        THEN UpperAlphabet[CHOOSE k \in 1..26 : LowerAlphabet[k] = s[i]]
        ELSE s[i]]

\* str.replace(old, new) for single characters
str_replace(s, old, new) == [i \in 1..Len(s) |-> IF s[i] = old THEN new ELSE s[i]]

\* shared_types.py: the members of Status, name and value
StatusMembers ==
    <<
      [name |-> <<"W", "A", "I", "T", "I", "N", "G", "_", "F", "O", "R", "_", "P", "L", "A", "Y", "E", "R", "S">>,
       value |-> <<"w", "a", "i", "t", "i", "n", "g", " ", "f", "o", "r", " ", "p", "l", "a", "y", "e", "r", "s">>,
       status |-> WAITING_FOR_PLAYERS],
      [name |-> <<"I", "N", "_", "P", "R", "O", "G", "R", "E", "S", "S">>,
       value |-> <<"i", "n", " ", "p", "r", "o", "g", "r", "e", "s", "s">>,
       status |-> IN_PROGRESS],
      [name |-> <<"C", "H", "E", "C", "K", "M", "A", "T", "E">>,
       value |-> <<"c", "h", "e", "c", "k", "m", "a", "t", "e">>,
       status |-> CHECKMATE],
      [name |-> <<"S", "T", "A", "L", "E", "M", "A", "T", "E">>,
       value |-> <<"s", "t", "a", "l", "e", "m", "a", "t", "e">>,
       status |-> STALEMATE],
      [name |-> <<"D", "R", "A", "W", "_", "R", "E", "P", "E", "T", "I", "T", "I", "O", "N">>,
       value |-> <<"d", "r", "a", "w", " ", "b", "y", " ", "r", "e", "p", "e", "t", "i", "t", "i", "o", "n">>,
       status |-> DRAW_REPETITION],
      [name |-> <<"D", "R", "A", "W", "_", "F", "I", "F", "T", "Y", "_", "H", "A", "L", "F", "_", "M", "O", "V", "E", "_", "R", "U", "L", "E">>,
       value |-> <<"d", "r", "a", "w", " ", "b", "y", " ", "5", "0", " ", "h", "a", "l", "f", "-", "m", "o", "v", "e", "s">>,
       status |-> DRAW_FIFTY_HALF_MOVE_RULE]
    >>

\* the value of a status, as the string it is
StatusValue(stat) ==
    StatusMembers[CHOOSE i \in 1..Len(StatusMembers) : StatusMembers[i].status = stat].value

\* Status.__members__
StatusMemberNames == {StatusMembers[i].name : i \in 1..Len(StatusMembers)}

\* Status[status_name]
StatusByName(status_name) ==
    StatusMembers[CHOOSE i \in 1..Len(StatusMembers) : StatusMembers[i].name = status_name].status

GameCreationError == "GameCreationError"

\* the color names a model may register players under
AVAILABLE_COLOR_NAMES == {"WHITE", "BLACK"}

\* color.name.lower() and back
ColorKey(color) == IF color = WHITE THEN "white" ELSE "black"

ColorKeyUpper(color_name) ==
    CASE color_name = "white" -> "WHITE" [] color_name = "black" -> "BLACK" [] OTHER -> color_name

GameModel(current_fen, history_fen, moves_uci, registered_players, stat) ==
    [current_fen |-> current_fen, history_fen |-> history_fen, moves_uci |-> moves_uci,
     registered_players |-> registered_players, status |-> stat]

\* Move.from_uci
Move_from_uci(uci) ==
    Move(from_algebraic(SubSeq(uci, 1, 2)), from_algebraic(SubSeq(uci, 3, 4)),
         IF Len(uci) = 5 THEN FEN_TO_PIECE(uci[5]) ELSE None, None, FALSE)

\* the players of the colors white, black in this order, those registered only
PlayersInColorOrder(pl) ==
    SelectSeq(<<<<WHITE, "white">>, <<BLACK, "black">>>>,
              LAMBDA c : c[1] \in PlayerColors(pl))

\* Game.to_model
to_model(game) ==
    GameModel(FENState_to_fen(game.state),
              game.history,
              [i \in 1..Len(game.moves) |-> Move_to_uci(game.moves[i])],
              [i \in 1..Len(PlayersInColorOrder(game.players)) |->
                  <<PlayersInColorOrder(game.players)[i][2],
                    PlayerOf(game.players, PlayersInColorOrder(game.players)[i][1])>>],
              StatusValue(game.status))

\* the players of a model, white before black
PlayersOfModel(registered_players) ==
    LET keys == {registered_players[i][1] : i \in 1..Len(registered_players)}
        named(key) ==
            registered_players[CHOOSE i \in 1..Len(registered_players) :
                                   registered_players[i][1] = key][2]
        colors == SelectSeq(<<WHITE, BLACK>>, LAMBDA c : ColorKey(c) \in keys)
    IN [i \in 1..Len(colors) |-> <<colors[i], named(ColorKey(colors[i]))>>]

\* Game.from_model behind the two validations
GameFromParsed(model, parsed, status_name) ==
    IF parsed.err # None THEN Raise(parsed.err)
    ELSE Ok([board |-> Board_from_fen(Split(model.current_fen, " ")[1]),
             moves |-> [i \in 1..Len(model.moves_uci) |-> Move_from_uci(model.moves_uci[i])],
             history |-> model.history_fen,
             state |-> parsed.val,
             players |-> PlayersOfModel(model.registered_players),
             status |-> StatusByName(status_name)])

\* Game.from_model
from_model(model) ==
    LET status_name == str_upper(str_replace(model.status, " ", "_")) IN
    IF status_name \notin StatusMemberNames THEN Raise(GameCreationError)
    ELSE IF \E i \in 1..Len(model.registered_players) :
               ColorKeyUpper(model.registered_players[i][1]) \notin AVAILABLE_COLOR_NAMES
    THEN Raise(GameCreationError)
    ELSE GameFromParsed(model, FENState_from_fen(model.current_fen), status_name)

-----------------------------------------------------------------------------
(* services/chess_service.py: creating a game through the service          *)

\* ChessService.create_new_game(request): Game.new_game is called with the
\* player's name and color, the starting position is left at its default
create_new_game(req) == new_game(req.player_name, req.color, NoText)

\* ChessService._create_game_response, the game id left out
create_game_response(model) ==
    [players |-> model.registered_players,
     fen_state |-> model.current_fen,
     starting_state |-> IF Len(model.history_fen) > 0
                        THEN model.history_fen[1] ELSE model.current_fen,
     move_history |-> model.moves_uci]

\* a text of two parts, which the request validator refuses
TwoPartText == <<"8", "/", "8", " ", "w">>

\* the starting positions the clients ask for, none included
RequestedFens == StartingFens \cup {NoText, TwoPartText}

\* the service creates the game from the request as its validator leaves it;
\* request keeps what the client sent
InitService ==
    \E player \in Names, color \in ColorNames, starting_fen \in RequestedFens :
        \E validated \in {validate_starting_fen(starting_fen)} :
            /\ validated.err = None
            /\ create_new_game(CreateGameRequest(player, color, validated.val))
            /\ request = CreateGameRequest(player, color, starting_fen)
            /\ NoServiceCalls

SpecService == InitService /\ [][Next]_vars

-----------------------------------------------------------------------------
(* services/chess_service.py and db/sql_repository.py: join_game and       *)
(* make_move calls on one stored record. A call reads the record, works on *)
(* a Game of its own built from it, and writes the record back; nothing    *)
(* holds the record between the read and the write.                        *)

\* the calls the service works on at a time
CallIds == {1, 2}

\* the moves the clients submit through the service
ServiceMoves ==
    { Uci("a", "6", "a", "5"), Uci("h", "1", "h", "8"), Uci("a", "8", "b", "8") }

\* the positions of the stored games
ServiceFens == {RookEndingFen, CastlingFen}

Success == "success"

\* a call: the request, where it stands, the model it is about to store, the answer,
\* and whether no other call held a copy of the record when it read it
Call(op, player_name, move_uci, pc, model, answer, alone) ==
    [op |-> op, player_name |-> player_name, move_uci |-> move_uci, pc |-> pc,
     model |-> model, answer |-> answer, alone |-> alone]

NotReceived == Call("none", "", <<>>, "idle", <<>>, "none", TRUE)

\* Game.register_player on a Game object: the game after it, or the fault
register_player_result(game, player) ==
    IF game.status # WAITING_FOR_PLAYERS THEN Raise(GameStateError)
    ELSE LET opponent_color == game.players[1][1]
             player_color == IF opponent_color = BLACK THEN WHITE ELSE BLACK
         IN Ok([game EXCEPT !.players = PlayersUpdate(game.players, player_color, player),
                            !.status = IN_PROGRESS])

\* Game.make_move on a Game object: the game after it, or the fault
game_make_move(game, move_uci, player) ==
    IF game.status # IN_PROGRESS THEN Raise(GameStateError)
    ELSE IF player # get_turn_player(game.state, game.players) THEN Raise(NotYourTurnError)
    ELSE \* the legal moves are computed once and the move is looked up in them
         LET res == make_move_result(game.board, game.moves, game.history, game.state,
                                     game.players, game.status,
                                     generate_legal_moves(game.board, game.state, game.players,
                                                          get_player_color(game.players, player)),
                                     move_uci)
         IN IF res.err # None THEN Raise(res.err)
            ELSE Ok([board |-> res.game.board, moves |-> res.game.moves,
                     history |-> res.game.history, state |-> res.game.state,
                     players |-> game.players, status |-> res.game.status])

\* ChessService.join_game from the fetch to the model captured for storing: a
\* fault of Game.from_model or of register_player goes to the caller
join_game(stored_model, player_name) ==
    LET game == from_model(stored_model) IN
    IF game.err # None THEN Raise(game.err)
    ELSE LET joined == register_player_result(game.val, player_name) IN
         IF joined.err # None THEN Raise(joined.err)
         ELSE Ok(to_model(joined.val))

\* ChessService.make_move from the fetch to the model captured for storing: a
\* fault of Game.from_model or of Game.make_move goes to the caller
service_make_move(stored_model, move_uci, player_name) ==
    LET game == from_model(stored_model) IN
    IF game.err # None THEN Raise(game.err)
    ELSE LET moved == game_make_move(game.val, move_uci, player_name) IN
         IF moved.err # None THEN Raise(moved.err)
         ELSE Ok(to_model(moved.val))

\* the call has read the record: a fault ends it, otherwise it holds the model it
\* will store
Fetched(c, op, player_name, move_uci, outcome) ==
    IF outcome.err # None
    THEN Call(op, player_name, move_uci, "done", <<>>, outcome.err, TRUE)
    ELSE Call(op, player_name, move_uci, "fetched", outcome.val, "none",
              \A other \in CallIds \ {c} : calls[other].pc # "fetched")

\* join_game: repo.get_game, Game.from_model, register_player, to_model
JoinGameFetch ==
    /\ \E c \in CallIds, player_name \in Names :
          /\ calls[c].pc = "idle"
          /\ \E outcome \in {join_game(record, player_name)} :
                calls' = [calls EXCEPT ![c] = Fetched(c, "join_game", player_name, <<>>, outcome)]
    /\ UNCHANGED <<board, moves, history, state, players, status, last, request, record>>

\* make_move: repo.get_game, build_uci, Game.from_model, make_move, to_model
MakeMoveFetch ==
    /\ \E c \in CallIds, player_name \in Names, move_uci \in ServiceMoves :
          /\ calls[c].pc = "idle"
          /\ \E outcome \in {service_make_move(record, move_uci, player_name)} :
                calls' = [calls EXCEPT ![c] = Fetched(c, "make_move", player_name, move_uci, outcome)]
    /\ UNCHANGED <<board, moves, history, state, players, status, last, request, record>>

\* SQLGameRepository.update_game: every field of the record is overwritten with the
\* model of the call, and the call is answered
UpdateGame ==
    /\ \E c \in CallIds :
          /\ calls[c].pc = "fetched"
          /\ record' = calls[c].model
          /\ calls' = [calls EXCEPT ![c].pc = "done", ![c].answer = Success]
    /\ UNCHANGED <<board, moves, history, state, players, status, last, request>>

\* a game created by the first player and stored, as it is or after the second
\* player has joined; the game variables keep the game the record was stored from
InitCalls ==
    \E player \in Creators, color \in ColorNames, starting_fen \in ServiceFens,
       joined \in BOOLEAN :
        /\ new_game(player, color, starting_fen)
        /\ request = CreateGameRequest(player, color, starting_fen)
        /\ LET created == to_model([board |-> board, moves |-> moves, history |-> history,
                                    state |-> state, players |-> players, status |-> status])
           IN record = IF joined THEN join_game(created, "bob").val ELSE created
        /\ calls = [c \in CallIds |-> NotReceived]

NextCalls == JoinGameFetch \/ MakeMoveFetch \/ UpdateGame

SpecCalls == InitCalls /\ [][NextCalls]_vars

-----------------------------------------------------------------------------
(* moves.py squares_between_on_rank called on its own, on any two squares  *)
(* of the board                                                            *)

\* a call of squares_between_on_rank: the two squares, and the outcome once
\* the call is over
SquaresCall(from_square, to_square, pc, outcome) ==
    [op |-> "squares_between_on_rank", from_square |-> from_square,
     to_square |-> to_square, pc |-> pc, outcome |-> outcome]

\* squares_between_on_rank(from_square, to_square)
SquaresBetweenOnRank ==
    /\ calls[1].pc = "idle"
    /\ calls' = <<SquaresCall(calls[1].from_square, calls[1].to_square, "done",
                              squares_between_on_rank(calls[1].from_square,
                                                      calls[1].to_square))>>
    /\ UNCHANGED <<board, moves, history, state, players, status, last, request, record>>

\* a game on the standard position, and a call on two squares of the board
InitSquares ==
    \E from_square \in Squares, to_square \in Squares :
        /\ new_game("ann", "white", STARTING_FEN)
        /\ request = CreateGameRequest("ann", "white", STARTING_FEN)
        /\ record = <<>>
        /\ calls = <<SquaresCall(from_square, to_square, "idle", <<>>)>>

NextSquares == SquaresBetweenOnRank

SpecSquares == InitSquares /\ [][NextSquares]_vars

-----------------------------------------------------------------------------
(* Properties                                                              *)

\* what make_move may change besides the player map
GameVars == <<board, state, history, moves, status>>

\* the legal moves the game computes for the player to move
LegalNow ==
    generate_legal_moves(board, state, players,
                         get_player_color(players, get_turn_player(state, players)))

\* the board after the move is carried out the way make_move carries it out
AppliedBoard(move) ==
    update_board(board, state, AcceptedMove_from_move_and_board(move, board))

\* C1: in an in-progress game every move of the legal-move set, carried out as
\* make_move carries it out (en passant removes the captured pawn, castling moves
\* the rook), leaves the king of the side to move not attacked.
C1_LegalMovesKeepKingSafe ==
    (status = IN_PROGRESS /\ get_turn_player_color(state, players) = state.color_to_move) =>
        \A legal \in {LegalNow} :
            legal.err = None =>
                \A i \in 1..Len(legal.val) :
                    is_check(AppliedBoard(legal.val[i]), state.color_to_move) = Ok(FALSE)

\* C2: no step of the game turns a castling right from false to true.
C2_CastlingRightsNeverRestored ==
    [][\A d \in DOMAIN state.castling_rights :
          state'.castling_rights[d] => state.castling_rights[d]]_vars

\* a right the game started with has been revoked by a move
C2_RightRevoked ==
    /\ Len(history) > 0
    /\ \E d \in DOMAIN state.castling_rights :
          /\ FENState_from_fen(history[1]).val.castling_rights[d]
          /\ ~state.castling_rights[d]

\* C3: a make_move call either completes every step without a fault or leaves
\* board, position state, both logs and status as they were.
C3_MakeMoveAllOrNothing ==
    [][last'.op = "make_move" =>
          \/ last'.accepted /\ last'.err = None
          \/ UNCHANGED GameVars]_vars

\* C4: in an in-progress game a make_move call of the player to move that is not
\* accepted fails with the illegal-move error and leaves the game unchanged.
C4_IllegalMoveRejected ==
    [][(/\ status = IN_PROGRESS
        /\ last'.op = "make_move"
        /\ last'.err # NotYourTurnError
        /\ ~last'.accepted)
       => (last'.err = IllegalMoveError /\ UNCHANGED GameVars)]_vars

\* everything a rejected call must leave alone
AllGameVars == <<board, state, history, moves, players, status>>

\* the caller of the step is registered for the side to move
CallerOnTurn(caller) ==
    \E i \in 1..Len(players) : players[i] = <<state.color_to_move, caller>>

\* C5: legal_moves and make_move fail with the game-state error when the status
\* is not in-progress, and otherwise with the not-your-turn error when the caller
\* is not the player registered for the side to move; the game is left unchanged.
C5_RefusedCallsChangeNothing ==
    [][last'.op \in {"legal_moves", "make_move"} =>
          /\ status # IN_PROGRESS =>
                (last'.err = GameStateError /\ UNCHANGED AllGameVars)
          /\ (status = IN_PROGRESS /\ ~CallerOnTurn(last'.player)) =>
                (last'.err = NotYourTurnError /\ UNCHANGED AllGameVars)]_vars

\* a move has been played and the player not on turn has been turned away
C5_OutOfTurnRefused ==
    /\ status = IN_PROGRESS
    /\ Len(moves) > 0
    /\ last.op \in {"legal_moves", "make_move"}
    /\ ~CallerOnTurn(last.player)
    /\ last.err = NotYourTurnError

\* C6: the status only moves from waiting to in-progress to a terminal status,
\* never backwards, and in a terminal status no operation changes the status, the
\* board, the position state or the logs.
C6_StatusOnlyAdvances ==
    [][/\ status = WAITING_FOR_PLAYERS => status' \in {WAITING_FOR_PLAYERS, IN_PROGRESS}
       /\ status = IN_PROGRESS => status' \in {IN_PROGRESS} \cup TerminalStatuses
       /\ status \in TerminalStatuses => UNCHANGED GameVars]_vars

\* a finished game on which a further move has been refused
C6_MoveAfterTheEndRefused ==
    /\ status \in TerminalStatuses
    /\ last.op = "make_move"
    /\ last.err = GameStateError

\* C7: register_player on a waiting game registers the caller for the side that
\* has no player, keeps the registered player and sets the status to in-progress;
\* on any other game it fails with the game-state error and changes nothing.
C7_RegisterFillsFreeSide ==
    [][last'.op = "register_player" =>
          IF status = WAITING_FOR_PLAYERS
          THEN /\ last'.err = None
               /\ Len(players) = 1
               /\ players' = <<players[1], <<OppositeColor(players[1][1]), last'.player>>>>
               /\ status' = IN_PROGRESS
               /\ UNCHANGED <<board, state, history, moves>>
          ELSE /\ last'.err = GameStateError
               /\ UNCHANGED AllGameVars]_vars

\* the second player has just joined
C7_SecondPlayerJoined ==
    /\ last.op = "register_player"
    /\ last.err = None
    /\ Len(players) = 2
    /\ status = IN_PROGRESS

\* C8: winner is defined exactly when the status is checkmate, and is then the
\* player registered for the side that is not to move, who made the mating move.
C8_WinnerOnlyOnCheckmate ==
    /\ (winner(state, players, status) # None) <=> (status = CHECKMATE)
    /\ status = CHECKMATE =>
          \E i \in 1..Len(players) :
              /\ players[i][1] # state.color_to_move
              /\ players[i][2] = winner(state, players, status)
    /\ (status = CHECKMATE /\ last.op = "make_move" /\ last.accepted) =>
          winner(state, players, status) = last.player

\* a game between two different players has just ended in checkmate
C8_MateDelivered ==
    /\ status = CHECKMATE
    /\ last.op = "make_move"
    /\ last.accepted
    /\ players[1][2] # players[2][2]

\* a condition computed without a fault and found to hold
Holds(result) == result.err = None /\ result.val

\* the status of the last end condition that holds for the side to move, in the
\* order checkmate, stalemate, repetition, fifty moves
LastConditionHolding(mate, stale, rep, fifty) ==
    IF fifty THEN DRAW_FIFTY_HALF_MOVE_RULE
    ELSE IF Holds(rep) THEN DRAW_REPETITION
    ELSE IF Holds(stale) THEN STALEMATE
    ELSE IF Holds(mate) THEN CHECKMATE
    ELSE IN_PROGRESS

\* C9: after an accepted move the status is that of the last of checkmate,
\* stalemate, draw by repetition and draw by fifty moves that holds for the new
\* side to move, and in-progress when none holds.
C9_StatusIsLastConditionHolding ==
    (last.op = "make_move" /\ last.accepted) =>
        status = LastConditionHolding(
                     is_check_mate(board, state, players, state.color_to_move),
                     is_stale_mate(board, state, players, state.color_to_move),
                     is_three_fold_repetition(state, history),
                     is_half_move_clock_draw(state))

\* the history entry shows the position of the current state: placement, side to
\* move, castling rights and en-passant square, the counters left out
SameVisit(previous_fen) ==
    /\ previous_fen.position = state.position
    /\ previous_fen.color_to_move = state.color_to_move
    /\ previous_fen.castling_rights = state.castling_rights
    /\ previous_fen.en_passant_square = state.en_passant_square

EarlierVisits ==
    Cardinality({i \in 1..Len(history) : SameVisit(FENState_from_fen(history[i]).val)})

RepetitionAsCounted(rep) ==
    /\ rep.err = None
    /\ rep.val <=> (EarlierVisits >= 2)
    /\ (last.err = None /\ ~is_half_move_clock_draw(state)) =>
          (status = DRAW_REPETITION <=> rep.val)

\* C10: after an accepted move the repetition condition holds exactly when at
\* least two entries of the history log show the position of the new state,
\* counters ignored; the status is then draw by repetition unless the fifty-move
\* condition holds too.
C10_RepetitionIsThirdVisit ==
    (last.op = "make_move" /\ last.accepted) =>
        RepetitionAsCounted(is_three_fold_repetition(state, history))

\* a move has just brought the position back for the third time
C10_ThirdVisitDrawn ==
    /\ last.op = "make_move"
    /\ last.accepted
    /\ status = DRAW_REPETITION
    /\ EarlierVisits >= 2

\* the move a step has just appended to the move log
PlayedMove == moves'[Len(moves')]

\* the step was a make_move call that accepted its move
MoveAccepted == last'.op = "make_move" /\ last'.accepted

\* the move played was a pawn move or took a piece, read off the board before it
PawnMoveOrCapture ==
    \/ piece(board, PlayedMove.from_square).type = PAWN
    \/ piece(board, PlayedMove.to_square).type # EMPTY

\* C11: an accepted move sets the half-move clock to 0 when it is a pawn move or
\* a capture and otherwise adds one to it, and whenever the clock has reached the
\* fifty-move limit after an accepted move the status is draw by fifty moves.
C11_ClockCountsAndEndsGame ==
    [][MoveAccepted =>
          /\ state'.half_move_clock =
                IF PawnMoveOrCapture THEN 0 ELSE state.half_move_clock + 1
          /\ state'.half_move_clock >= FiftyMoveLimit =>
                status' = DRAW_FIFTY_HALF_MOVE_RULE]_vars

\* the counting half of C11 alone: reset on a pawn move or capture, else plus one
C11_ClockCounts ==
    [][MoveAccepted =>
          state'.half_move_clock =
              IF PawnMoveOrCapture THEN 0 ELSE state.half_move_clock + 1]_vars

\* the game as the object Game holds it
ThisGame ==
    [board |-> board, moves |-> moves, history |-> history, state |-> state,
     players |-> players, status |-> status]

\* a player map as a dict: the order of insertion is left out of the comparison
AsDict(pl) == {pl[i] : i \in 1..Len(pl)}

SameGame(game, other) ==
    /\ other.board = game.board
    /\ other.state = game.state
    /\ other.history = game.history
    /\ other.moves = game.moves
    /\ AsDict(other.players) = AsDict(game.players)
    /\ other.status = game.status

RoundTrips(game, back) ==
    /\ back.err = None
    /\ SameGame(game, back.val)
    /\ to_model(back.val) = to_model(game)

\* C12: in every reachable state of a game, from_model(to_model(game)) succeeds
\* and gives the same board, position state, logs, players and status, and
\* converting that game back gives the same record.
C12_ModelRoundTrip == RoundTrips(ThisGame, from_model(to_model(ThisGame)))

\* the text the game was created from, and what FENState.from_fen makes of it
StartingText == request.starting_fen

\* C13: for every text the FEN validator accepts, FENState.from_fen(s).to_fen()
\* is s, character for character.
C13_FenRoundTrip ==
    \A parsed \in {FENState_from_fen(StartingText)} :
        parsed.err = None => FENState_to_fen(parsed.val) = StartingText

\* C14: for every piece-placement text p the position validator accepts,
\* Board.from_fen(p).to_fen() is p.
C14_PlacementRoundTrip ==
    \A position \in {Split(StartingText, " ")[1]} :
        is_valid_position(position) => Board_to_fen(Board_from_fen(position)) = position

\* the legal moves whose moving piece is of the kind
LegalOfKind(legal, kind) ==
    SelectSeq(legal, LAMBDA move : piece(board, move.from_square).type = kind)

\* a pawn advance of one or two ranks on its file
IsPawnAdvance(move) ==
    /\ move.to_square[1] = move.from_square[1]
    /\ move.to_square[2] - move.from_square[2] \in {1, 2, -1, -2}

TwentyOpeningMoves(legal) ==
    /\ legal.err = None
    /\ Len(legal.val) = 20
    /\ Len(LegalOfKind(legal.val, PAWN)) = 16
    /\ \A i \in 1..Len(legal.val) :
          piece(board, legal.val[i].from_square).type = PAWN => IsPawnAdvance(legal.val[i])
    /\ Len(LegalOfKind(legal.val, KNIGHT)) = 4

\* C15: in the standard starting position the side to move has exactly 20 legal
\* moves: the one-square and the two-square advance of each of the 8 pawns and 4
\* knight moves.
C15_TwentyMovesFromTheStart ==
    (/\ status = IN_PROGRESS
     /\ state = starting_position
     /\ get_turn_player_color(state, players) = state.color_to_move)
    => TwentyOpeningMoves(LegalNow)

\* the squares of a rank from one file to another, both ends included
RankSpan(rank, file_a, file_b) ==
    {Square(file, rank) : file \in (IF file_a <= file_b THEN file_a..file_b ELSE file_b..file_a)}

\* the squares strictly between the king's and the rook's home squares
CastlingCorridor(direction) ==
    RankSpan(CASTLING_RULES(direction).king_from[2],
             CASTLING_RULES(direction).king_from[1],
             CASTLING_RULES(direction).rook_from[1])
    \ {CASTLING_RULES(direction).king_from, CASTLING_RULES(direction).rook_from}

\* the squares the king stands on from its home square to its destination
KingWalk(direction) ==
    RankSpan(CASTLING_RULES(direction).king_from[2],
             CASTLING_RULES(direction).king_from[1],
             CASTLING_RULES(direction).king_to[1])

\* the four conditions under which a side may castle in a direction
MayCastle(direction, color) ==
    /\ is_check(board, color) = Ok(FALSE)
    /\ state.castling_rights[direction]
    /\ \A square \in CastlingCorridor(direction) : piece(board, square).type = EMPTY
    /\ \A square \in KingWalk(direction) :
          ~is_square_attacked(board, square, OppositeColor(color))

CastlingOffered(legal, direction) ==
    \E i \in 1..Len(legal) : legal[i].castling_direction = direction

\* C16: a castling move of the side to move is in the legal-move set exactly
\* when the mover is not in check, the direction's right is not revoked, the
\* squares strictly between king and rook are empty and no square from the king's
\* home square to its destination is attacked; each direction on its own.
C16_CastlingExactlyWhenAllowed ==
    (status = IN_PROGRESS /\ get_turn_player_color(state, players) = state.color_to_move) =>
        \A legal \in {LegalNow} :
            legal.err = None =>
                \A i \in 1..Len(castling_options(state.color_to_move)) :
                    CastlingOffered(legal.val, castling_options(state.color_to_move)[i])
                    <=> MayCastle(castling_options(state.color_to_move)[i], state.color_to_move)

\* one sequence continues the other
IsPrefix(old, new) == Len(old) <= Len(new) /\ SubSeq(new, 1, Len(old)) = old

\* the logged move is the one carried out: its origin square was occupied and is
\* empty afterwards, and its destination holds the mover's color
MoveCarriedOut(move) ==
    /\ piece(board, move.from_square).type # EMPTY
    /\ piece(board', move.from_square).type = EMPTY
    /\ piece(board', move.to_square).color = piece(board, move.from_square).color

\* C17: every accepted make_move appends exactly one entry to the history log,
\* the FEN of the position state before the move, and exactly one entry to the
\* move log, the move played; no step changes, reorders or removes an earlier
\* entry of either log.
C17_LogsAppendOnly ==
    [][/\ IsPrefix(history, history')
       /\ IsPrefix(moves, moves')
       /\ IF MoveAccepted
          THEN /\ history' = Append(history, FENState_to_fen(state))
               /\ Len(moves') = Len(moves) + 1
               /\ MoveCarriedOut(PlayedMove)
          ELSE history' = history /\ moves' = moves]_vars

\* three moves have been accepted and logged
C17_ThreeMovesLogged ==
    /\ last.op = "make_move"
    /\ last.accepted
    /\ Len(moves) = 3
    /\ Len(history) = 3

\* the farthest rank and the marching direction of a pawn of one color
FarRank(color) == IF color = WHITE THEN BOARD_DIMENSIONS[2] ELSE 1
March(color) == IF color = WHITE THEN 1 ELSE -1

\* the squares on the farthest rank a pawn on from_square may step or capture onto
\* without exposing its own king
PromotionTargets(from_square, color) ==
    { to_square \in Squares :
        /\ to_square[2] = FarRank(color)
        /\ from_square[2] + March(color) = to_square[2]
        /\ \/ to_square[1] = from_square[1] /\ piece(board, to_square).type = EMPTY
           \/ /\ to_square[1] \in {from_square[1] - 1, from_square[1] + 1}
              /\ piece(board, to_square).color = OppositeColor(color)
        /\ is_check(move_piece(board, from_square, to_square), color) = Ok(FALSE) }

\* the positions in a legal list of the moves between two squares with one promotion kind
Offered(legal, from_square, to_square, kind) ==
    { i \in 1..Len(legal) :
        /\ legal[i].from_square = from_square
        /\ legal[i].to_square = to_square
        /\ legal[i].promote_to = kind }

FourPromotions(legal, from_square, to_square) ==
    /\ legal.err = None
    /\ \A i \in 1..Len(PROMOTION_OPTIONS) :
          Cardinality(Offered(legal.val, from_square, to_square, PROMOTION_OPTIONS[i])) = 1
    /\ Offered(legal.val, from_square, to_square, None) = {}

PromotionsOffered ==
    (status = IN_PROGRESS /\ get_turn_player_color(state, players) = state.color_to_move) =>
        \A legal \in {LegalNow} :
            \A from_square \in Squares :
                piece(board, from_square) = Piece(PAWN, state.color_to_move) =>
                    \A to_square \in PromotionTargets(from_square, state.color_to_move) :
                        FourPromotions(legal, from_square, to_square)

PromotionCarriedOut ==
    (MoveAccepted /\ piece(board, PlayedMove.from_square).type = PAWN
                  /\ PlayedMove.to_square[2] \in {1, BOARD_DIMENSIONS[2]}) =>
        /\ PlayedMove.promote_to \in {PROMOTION_OPTIONS[i] : i \in 1..Len(PROMOTION_OPTIONS)}
        /\ piece(board', PlayedMove.to_square)
             = Piece(PlayedMove.promote_to, piece(board, PlayedMove.from_square).color)
        /\ piece(board', PlayedMove.from_square).type = EMPTY

\* C18: every legal pawn move reaching the farthest rank is offered as exactly four
\* legal moves, one per promotion kind (knight, bishop, rook, queen), and never
\* without a kind; after an accepted promotion the destination holds a piece of
\* the chosen kind in the mover's color and the origin square is empty.
C18_PromotionFourfoldAndCarriedOut ==
    [][PromotionsOffered /\ PromotionCarriedOut]_vars

\* the same statement for the positions whose legal-move generation does not fault
C18_PromotionWhereGenerated ==
    [][/\ PromotionCarriedOut
       /\ (status = IN_PROGRESS /\ get_turn_player_color(state, players) = state.color_to_move) =>
             \A legal \in {LegalNow} :
                legal.err = None =>
                    \A from_square \in Squares :
                        piece(board, from_square) = Piece(PAWN, state.color_to_move) =>
                            \A to_square \in PromotionTargets(from_square, state.color_to_move) :
                                FourPromotions(legal, from_square, to_square)]_vars

\* a pawn has just been promoted
C18_PawnPromoted ==
    /\ last.op = "make_move"
    /\ last.accepted
    /\ Len(moves) > 0
    /\ moves[Len(moves)].promote_to # None
    /\ piece(board, moves[Len(moves)].to_square).type = moves[Len(moves)].promote_to

\* the square of the pawn an en-passant move takes: the file of the en-passant
\* target, the rank the moving pawn started from
PassedPawnSquare(move) == Square(state.en_passant_square[1], move.from_square[2])

EnPassantAccepted == MoveAccepted /\ PlayedMove.is_en_passant

\* C19: an accepted en-passant move puts the capturing pawn on the en-passant
\* target square, empties its origin square, removes the opponent pawn standing on
\* the target's file and the mover's origin rank, leaves every other square
\* unchanged, and leaves the state without an en-passant target.
C19_EnPassantCarriedOut ==
    [][EnPassantAccepted =>
        /\ PlayedMove.to_square = state.en_passant_square
        /\ piece(board', PlayedMove.to_square) = Piece(PAWN, state.color_to_move)
        /\ piece(board', PlayedMove.from_square).type = EMPTY
        /\ piece(board', PassedPawnSquare(PlayedMove)).type = EMPTY
        /\ \A square \in Squares \ {PlayedMove.to_square, PlayedMove.from_square,
                                    PassedPawnSquare(PlayedMove)} :
              piece(board', square) = piece(board, square)
        /\ state'.en_passant_square = NoSquare]_vars

\* an en-passant capture has just been accepted
C19_EnPassantPlayed ==
    /\ last.op = "make_move"
    /\ last.accepted
    /\ Len(moves) > 0
    /\ moves[Len(moves)].is_en_passant
    /\ piece(board, moves[Len(moves)].to_square).type = PAWN
    /\ Cardinality({square \in Squares : piece(board, square).type = PAWN}) = 1

\* the game has just been created and nothing has been done with it since
JustCreated == last.op = "new_game"

\* what the service persists and what it reports for the game as it stands
PersistedGame == to_model(ThisGame)

\* C20: create_new_game with a starting FEN persists a game whose current FEN and
\* reported starting state both equal the requested FEN, whose history and move
\* log are empty, whose only registered player is the creator under the requested
\* color, and whose status is waiting for players.
C20_CreatedFromRequestedFen ==
    (JustCreated /\ Len(request.starting_fen) > 0) =>
        /\ PersistedGame.current_fen = request.starting_fen
        /\ create_game_response(PersistedGame).fen_state = request.starting_fen
        /\ create_game_response(PersistedGame).starting_state = request.starting_fen
        /\ PersistedGame.history_fen = <<>>
        /\ PersistedGame.moves_uci = <<>>
        /\ PersistedGame.registered_players = <<<<request.color, request.player_name>>>>
        /\ PersistedGame.status = StatusValue(WAITING_FOR_PLAYERS)

\* everything the claim says of the created game except the position
C20_CreatedApartFromPosition ==
    (JustCreated /\ Len(request.starting_fen) > 0) =>
        /\ PersistedGame.history_fen = <<>>
        /\ PersistedGame.moves_uci = <<>>
        /\ PersistedGame.registered_players = <<<<request.color, request.player_name>>>>
        /\ PersistedGame.status = StatusValue(WAITING_FOR_PLAYERS)

\* the squares of a direction's corridor the opponent of a color attacks
AttackedInCorridor(direction, color) ==
    {square \in CastlingCorridor(direction) :
        is_square_attacked(board, square, OppositeColor(color))}

\* C21: castling in a direction is not offered when any square strictly between
\* the king's and the rook's home squares is attacked by the opponent; queen-side
\* castling is excluded also when only the b-file square of the corridor is attacked.
C21_NoCastlingThroughAttackedCorridor ==
    (status = IN_PROGRESS /\ get_turn_player_color(state, players) = state.color_to_move) =>
        \A legal \in {LegalNow} :
            legal.err = None =>
                \A i \in 1..Len(castling_options(state.color_to_move)) :
                    AttackedInCorridor(castling_options(state.color_to_move)[i],
                                       state.color_to_move) # {}
                    => ~CastlingOffered(legal.val, castling_options(state.color_to_move)[i])

\* white to move holds the queen-side right, is not in check, the corridor is
\* empty and b1 is its only attacked square: the legal moves are computed and
\* hold no queen-side castling
C21_OnlyKnightSquareAttacked ==
    /\ status = IN_PROGRESS
    /\ state.color_to_move = WHITE
    /\ get_turn_player_color(state, players) = WHITE
    /\ state.castling_rights[WHITE_QUEEN_SIDE]
    /\ is_check(board, WHITE) = Ok(FALSE)
    /\ \A square \in CastlingCorridor(WHITE_QUEEN_SIDE) : piece(board, square).type = EMPTY
    /\ AttackedInCorridor(WHITE_QUEEN_SIDE, WHITE) = {from_algebraic(<<"b", "1">>)}
    /\ LegalNow.err = None
    /\ ~CastlingOffered(LegalNow.val, WHITE_QUEEN_SIDE)

AllCastlingDirections ==
    {WHITE_KING_SIDE, WHITE_QUEEN_SIDE, BLACK_KING_SIDE, BLACK_QUEEN_SIDE}

DirectionsOf(color) ==
    {castling_options(color)[i] : i \in 1..Len(castling_options(color))}

\* whether the move played costs a direction its right, judged on the board and
\* the side to move before the move
CostsRight(direction, move) ==
    \/ /\ direction \in DirectionsOf(state.color_to_move)
       /\ \/ move.castling_direction # None
          \/ piece(board, move.from_square).type = KING
          \/ /\ piece(board, move.from_square).type = ROOK
             /\ move.from_square = CASTLING_RULES(direction).rook_from
    \/ /\ direction \in DirectionsOf(OppositeColor(state.color_to_move))
       /\ piece(board, move.to_square) = Piece(ROOK, OppositeColor(state.color_to_move))
       /\ move.to_square = CASTLING_RULES(direction).rook_from

\* C22: after an accepted move both of the mover's castling rights are revoked if
\* the move was a castling or a king move, the mover's right of a direction is
\* revoked if a rook left that direction's rook home square, the opponent's right
\* of a direction is revoked if a rook was captured on that direction's rook home
\* square, and every other right keeps its value.
C22_CastlingRightsAfterMove ==
    [][(MoveAccepted /\ get_turn_player_color(state, players) = state.color_to_move) =>
        \A direction \in AllCastlingDirections :
            state'.castling_rights[direction]
              = (state.castling_rights[direction] /\ ~CostsRight(direction, PlayedMove))]_vars

\* the rook from h1 has just captured the rook on h8: both king-side rights are
\* gone, both queen-side rights are kept
C22_RookTakenAtHome ==
    /\ last.op = "make_move"
    /\ last.accepted
    /\ Len(moves) = 1
    /\ Move_to_uci(moves[1]) = Uci("h", "1", "h", "8")
    /\ piece(board, from_algebraic(<<"h", "8">>)) = Piece(ROOK, WHITE)
    /\ ~state.castling_rights[WHITE_KING_SIDE]
    /\ ~state.castling_rights[BLACK_KING_SIDE]
    /\ state.castling_rights[WHITE_QUEEN_SIDE]
    /\ state.castling_rights[BLACK_QUEEN_SIDE]

\* the canonical table written out: king from, king to, rook from, rook to
CanonicalCastling(direction) ==
    CASE direction = "K" -> <<Square(5, 1), Square(7, 1), Square(8, 1), Square(6, 1)>>
      [] direction = "Q" -> <<Square(5, 1), Square(3, 1), Square(1, 1), Square(4, 1)>>
      [] direction = "k" -> <<Square(5, 8), Square(7, 8), Square(8, 8), Square(6, 8)>>
      [] direction = "q" -> <<Square(5, 8), Square(3, 8), Square(1, 8), Square(4, 8)>>

CastlingAccepted == MoveAccepted /\ PlayedMove.castling_direction # None

CastledAs(entry, color) ==
    /\ piece(board, entry[1]) = Piece(KING, color)
    /\ piece(board, entry[3]) = Piece(ROOK, color)
    /\ piece(board', entry[2]) = Piece(KING, color)
    /\ piece(board', entry[4]) = Piece(ROOK, color)
    /\ piece(board', entry[1]).type = EMPTY
    /\ piece(board', entry[3]).type = EMPTY
    /\ \A square \in Squares \ {entry[1], entry[2], entry[3], entry[4]} :
          piece(board', square) = piece(board, square)

\* C23: an accepted castling move relocates the king from king-from to king-to
\* and the rook from rook-from to rook-to of the canonical entry of its direction
\* (e1-g1/h1-f1, e1-c1/a1-d1, e8-g8/h8-f8, e8-c8/a8-d8) and leaves every other
\* square of the board unchanged.
C23_CastlingRelocatesKingAndRook ==
    [][CastlingAccepted =>
        /\ PlayedMove.from_square = CanonicalCastling(PlayedMove.castling_direction)[1]
        /\ PlayedMove.to_square = CanonicalCastling(PlayedMove.castling_direction)[2]
        /\ CastledAs(CanonicalCastling(PlayedMove.castling_direction),
                     piece(board, PlayedMove.from_square).color)]_vars

\* black has just castled queen-side
C23_BlackCastledQueenSide ==
    /\ last.op = "make_move"
    /\ last.accepted
    /\ Len(moves) > 0
    /\ moves[Len(moves)].castling_direction = BLACK_QUEEN_SIDE
    /\ piece(board, Square(3, 8)) = Piece(KING, BLACK)
    /\ piece(board, Square(4, 8)) = Piece(ROOK, BLACK)

Distance(a, b) == IF a >= b THEN a - b ELSE b - a

\* the move played was a pawn advance of two ranks
TwoRankPawnAdvance(move) ==
    /\ piece(board, move.from_square).type = PAWN
    /\ move.from_square[1] = move.to_square[1]
    /\ Distance(move.from_square[2], move.to_square[2]) = 2

\* the square a two-rank advance passed over: one rank behind its destination
PassedOver(move) == Square(move.to_square[1], move.to_square[2] - March(state.color_to_move))

EmptyDiagonals(from_square, color) ==
    { to_square \in Squares :
        /\ to_square[2] = from_square[2] + March(color)
        /\ Distance(to_square[1], from_square[1]) = 1
        /\ piece(board, to_square).type = EMPTY }

InLegalSet(legal, from_square, to_square) ==
    \E i \in 1..Len(legal) :
        legal[i].from_square = from_square /\ legal[i].to_square = to_square

\* make_move of the player to move with the move between two squares, on the game as it stands
MakeMoveNow(legal, from_square, to_square) ==
    make_move_result(board, moves, history, state, players, status, legal,
                     to_algebraic(from_square) \o to_algebraic(to_square))

\* a diagonal pawn move to an empty square is legal only onto the recorded target
DiagonalOnlyOntoTarget(legal, from_square, to_square) ==
    (legal.err = None /\ InLegalSet(legal.val, from_square, to_square))
        => to_square = state.en_passant_square

\* with no target recorded such a move is rejected as illegal
DiagonalRejectedWithoutTarget(legal, from_square, to_square) ==
    state.en_passant_square = NoSquare =>
        /\ ~MakeMoveNow(legal, from_square, to_square).accepted
        /\ MakeMoveNow(legal, from_square, to_square).err = IllegalMoveError

\* C25: a pawn move to an empty diagonally adjacent square is in the legal-move
\* set only if that square is the en-passant target recorded in the position
\* state; when no target is recorded, make_move rejects such a move with the
\* illegal-move error, also when an opponent pawn stands beside the mover's pawn.
C25_DiagonalPawnMoveNeedsTarget ==
    (status = IN_PROGRESS /\ get_turn_player_color(state, players) = state.color_to_move) =>
        \A legal \in {LegalNow} :
            \A from_square \in Squares :
                piece(board, from_square) = Piece(PAWN, state.color_to_move) =>
                    \A to_square \in EmptyDiagonals(from_square, state.color_to_move) :
                        /\ DiagonalOnlyOntoTarget(legal, from_square, to_square)
                        /\ DiagonalRejectedWithoutTarget(legal, from_square, to_square)

\* the same statement for the positions whose legal-move generation does not fault
C25_DiagonalWhereGenerated ==
    (status = IN_PROGRESS /\ get_turn_player_color(state, players) = state.color_to_move) =>
        \A legal \in {LegalNow} :
            legal.err = None =>
                \A from_square \in Squares :
                    piece(board, from_square) = Piece(PAWN, state.color_to_move) =>
                        \A to_square \in EmptyDiagonals(from_square, state.color_to_move) :
                            /\ DiagonalOnlyOntoTarget(legal, from_square, to_square)
                            /\ DiagonalRejectedWithoutTarget(legal, from_square, to_square)

\* no target is recorded, an opponent pawn stands beside the pawn on b5 and the
\* capture towards it has just been refused as illegal
C25_CaptureBesideRefused ==
    /\ status = IN_PROGRESS
    /\ state.en_passant_square = NoSquare
    /\ piece(board, Square(2, 5)) = Piece(PAWN, WHITE)
    /\ piece(board, Square(3, 5)) = Piece(PAWN, BLACK)
    /\ state.color_to_move = WHITE
    /\ last.op = "make_move"
    /\ last.err = IllegalMoveError

\* the color of the piece the move played moved
MoverColor == piece(board, PlayedMove.from_square).color

\* C26: the full-move number increases by exactly one when the accepted move was
\* made by black and is unchanged after an accepted move by white.
C26_FullMoveNumberCountsBlackMoves ==
    [][MoveAccepted =>
        state'.num_turns = IF MoverColor = BLACK THEN state.num_turns + 1
                           ELSE state.num_turns]_vars

\* white and then black have moved: the full-move number is one more than at the start
C26_RoundCompleted ==
    /\ last.op = "make_move"
    /\ last.accepted
    /\ Len(moves) = 2
    /\ piece(board, moves[1].to_square).color = WHITE
    /\ piece(board, moves[2].to_square).color = BLACK
    /\ state.num_turns = FENState_from_fen(history[1]).val.num_turns + 1
    /\ FENState_from_fen(history[2]).val.num_turns = FENState_from_fen(history[1]).val.num_turns

\* C27: for any two registered player names, every accepted make_move moves a
\* piece of the side the position state recorded as side to move before the call,
\* and afterwards the side to move is the other side.
C27_SidesAlternate ==
    [][MoveAccepted =>
        /\ MoverColor = state.color_to_move
        /\ state'.color_to_move = OppositeColor(state.color_to_move)]_vars

\* as C27, for the games whose two players have different names
C27_SidesAlternateTwoNames ==
    [][(MoveAccepted /\ players[1][2] # players[2][2]) =>
        /\ MoverColor = state.color_to_move
        /\ state'.color_to_move = OppositeColor(state.color_to_move)]_vars

\* C28: legal_moves, whether it returns a move list or fails, leaves board,
\* position state, history log, move log, players and status unchanged: the check
\* simulation never alters the board the game holds.
C28_LegalMovesChangesNothing ==
    [][last'.op = "legal_moves" => UNCHANGED AllGameVars]_vars

\* in a game with a move played the legal moves have been listed for the player to move
C28_MovesListedMidGame ==
    /\ status = IN_PROGRESS
    /\ Len(moves) > 0
    /\ last.op = "legal_moves"
    /\ last.err = None
    /\ CallerOnTurn(last.player)
    /\ LegalNow.err = None
    /\ Len(LegalNow.val) > 0

\* make_move of the player to move with a move of the legal list, on the game as it stands
MakeLegalMoveNow(legal, move) ==
    make_move_result(board, moves, history, state, players, status, legal, Move_to_uci(move))

\* C29: every move that legal_moves returns for the player to move is accepted by
\* make_move for the same player in the same state, and that make_move completes
\* all its steps, the status evaluation included, without a fault.
C29_ListedMovesArePlayable ==
    (status = IN_PROGRESS /\ get_turn_player_color(state, players) = state.color_to_move) =>
        \A legal \in {LegalNow} :
            legal.err = None =>
                \A i \in 1..Len(legal.val) :
                    /\ MakeLegalMoveNow(legal, legal.val[i]).accepted
                    /\ MakeLegalMoveNow(legal, legal.val[i]).err = None

\* every listed move is accepted, whatever happens after it has been carried out
C29_ListedMovesAreAccepted ==
    (status = IN_PROGRESS /\ get_turn_player_color(state, players) = state.color_to_move) =>
        \A legal \in {LegalNow} :
            legal.err = None =>
                \A i \in 1..Len(legal.val) :
                    /\ MakeLegalMoveNow(legal, legal.val[i]).accepted
                    /\ MakeLegalMoveNow(legal, legal.val[i]).err # IllegalMoveError

\* C30: computing the legal-move set never reads the board at a coordinate outside
\* the grid and never yields a move whose origin or destination lies outside the
\* grid, pawns on the a- and h-files and en-passant targets on those files included.
C30_LegalMovesStayOnTheGrid ==
    status = IN_PROGRESS =>
        \A legal \in {LegalNow} :
            /\ legal.err # KeyError
            /\ legal.err = None =>
                  \A i \in 1..Len(legal.val) :
                      /\ is_within_bounds(legal.val[i].from_square)
                      /\ is_within_bounds(legal.val[i].to_square)

\* the moves that are yielded lie on the grid
C30_YieldedMovesOnTheGrid ==
    status = IN_PROGRESS =>
        \A legal \in {LegalNow} :
            legal.err = None =>
                \A i \in 1..Len(legal.val) :
                    /\ is_within_bounds(legal.val[i].from_square)
                    /\ is_within_bounds(legal.val[i].to_square)

-----------------------------------------------------------------------------
(* C31: pawn moves straight ahead                                          *)

\* the move takes a pawn of the board along its file
PawnMoveAlongFile(b, move) ==
    /\ piece(b, move.from_square).type = PAWN
    /\ move.from_square[1] = move.to_square[1]

\* C31: no pawn move of the legal-move set advances straight forward onto an
\* occupied square: the destination of a pawn's forward move is empty.
C31_PawnPushOntoEmptySquare ==
    status = IN_PROGRESS =>
        \A legal \in {LegalNow} :
            legal.err = None =>
                \A i \in 1..Len(legal.val) :
                    PawnMoveAlongFile(board, legal.val[i]) =>
                        piece(board, legal.val[i].to_square).type = EMPTY

\* a pawn has taken the piece that stood straight ahead of it
C31_PawnTookStraightAhead ==
    /\ last.op = "make_move" /\ last.accepted
    /\ Len(moves) > 0
    /\ moves[Len(moves)].from_square = Square(5, 4)
    /\ moves[Len(moves)].to_square = Square(5, 5)
    /\ piece(board, Square(5, 5)) = Piece(PAWN, WHITE)
    /\ Len(locate_color(board, BLACK)) = 1

-----------------------------------------------------------------------------
(* C32: attack detection against move generation                           *)

\* a candidate move of the list ends on the square
ReachedBy(candidate_moves, square) ==
    \E i \in 1..Len(candidate_moves) : candidate_moves[i].to_square = square

\* the same, the pawn moves along a file left out
ReachedOtherThanByPush(b, candidate_moves, square) ==
    \E i \in 1..Len(candidate_moves) :
        /\ candidate_moves[i].to_square = square
        /\ ~PawnMoveAlongFile(b, candidate_moves[i])

\* the king of the color is reported in check exactly when a candidate move of the
\* opponent ends on its square, wherever both are computed without a fault
CheckIsDualOfCandidates(b, color) ==
    \A ksq \in {king_square(b, color)}, candidate \in {generate_candidate_moves(b, OppositeColor(color))} :
        (ksq.err = None /\ candidate.err = None) =>
            (is_check(b, color).val <=> ReachedBy(candidate.val, ksq.val))

CheckIsDualApartFromPushes(b, color) ==
    \A ksq \in {king_square(b, color)}, candidate \in {generate_candidate_moves(b, OppositeColor(color))} :
        (ksq.err = None /\ candidate.err = None) =>
            (is_check(b, color).val <=> ReachedOtherThanByPush(b, candidate.val, ksq.val))

\* C32: on every board, a side's king is reported in check exactly when the opponent
\* has a candidate move, as generate_candidate_moves produces them, whose destination
\* is that king's square.
C32_CheckIsDualOfCandidateMoves ==
    \A color \in {WHITE, BLACK} : CheckIsDualOfCandidates(board, color)

\* the two agree on every candidate that is not a pawn's move along its file
C32_DualApartFromPawnPushes ==
    \A color \in {WHITE, BLACK} : CheckIsDualApartFromPushes(board, color)

\* a king is in check and a candidate move of the opponent ends on its square
C32_CheckWithCandidate ==
    \E color \in {WHITE, BLACK} :
        /\ king_square(board, color).err = None
        /\ generate_candidate_moves(board, OppositeColor(color)).err = None
        /\ is_check(board, color).val
        /\ ReachedBy(generate_candidate_moves(board, OppositeColor(color)).val,
                     king_square(board, color).val)

-----------------------------------------------------------------------------
(* C33: castling rights and the home squares                               *)

\* the side a castling direction belongs to
ColorOfDirection(direction) ==
    IF direction \in DirectionsOf(WHITE) THEN WHITE ELSE BLACK

\* the king and the rook of the direction stand on the squares they castle from
OnHomeSquares(b, direction) ==
    /\ piece(b, CASTLING_RULES(direction).king_from) = Piece(KING, ColorOfDirection(direction))
    /\ piece(b, CASTLING_RULES(direction).rook_from) = Piece(ROOK, ColorOfDirection(direction))

\* every right the state holds has its king and its rook at home on the board
HeldRightsAtHome(b, st) ==
    \A direction \in AllCastlingDirections :
        st.castling_rights[direction] => OnHomeSquares(b, direction)

\* the position the game was created from
CreatedState == FENState_from_fen(request.starting_fen).val

\* C33: from a starting position in which every held castling right has its king and
\* rook on their home squares, every state reached keeps that: a right still held
\* implies the king and that direction's rook stand on their home squares.
C33_HeldRightsHaveKingAndRookAtHome ==
    HeldRightsAtHome(Board_from_fen(CreatedState.position), CreatedState)
        => HeldRightsAtHome(board, state)

\* a rook has left its home square and taken the rook on h8 at home: the king-side
\* rights are gone, the queen-side rights are held with king and rook at home
C33_RightKeptAfterRookMove ==
    /\ last.op = "make_move" /\ last.accepted
    /\ Len(moves) = 1
    /\ Move_to_uci(moves[1]) = Uci("h", "1", "h", "8")
    /\ ~state.castling_rights[WHITE_KING_SIDE]
    /\ state.castling_rights[WHITE_QUEEN_SIDE]
    /\ OnHomeSquares(board, WHITE_QUEEN_SIDE)
    /\ state.castling_rights[BLACK_QUEEN_SIDE]
    /\ OnHomeSquares(board, BLACK_QUEEN_SIDE)

-----------------------------------------------------------------------------
(* C34: one king of each side                                              *)

\* the squares of the board that hold the king of the color
KingSquares(b, color) == {sq \in Squares : piece(b, sq) = Piece(KING, color)}

OneKingEach(b) ==
    \A color \in {WHITE, BLACK} : Cardinality(KingSquares(b, color)) = 1

\* the game was created with one king per side and the side not to move out of check
CreatedWithKingsSafe ==
    /\ OneKingEach(Board_from_fen(CreatedState.position))
    /\ ~is_check(Board_from_fen(CreatedState.position),
                 OppositeColor(CreatedState.color_to_move)).val

\* C34: from a starting position with exactly one king per side in which the side not
\* to move is not in check, every state reached by accepted moves has exactly one
\* king of each side on the board: no accepted move captures a king.
C34_OneKingOfEachSide == CreatedWithKingsSafe => OneKingEach(board)

\* the same in the games that start without a pawn facing a piece and without an
\* en-passant capture that uncovers the king, played under two names
C34_OneKingEachElsewhere ==
    (CreatedWithKingsSafe /\ players[1][2] # players[Len(players)][2]
     /\ request.starting_fen \notin {PawnsFacingFen, PawnFacingKingFen, EnPassantPinFen})
        => OneKingEach(board)

\* the pawn in front of the king has taken it
C34_KingTaken ==
    /\ last.op = "make_move" /\ last.accepted
    /\ CreatedWithKingsSafe
    /\ KingSquares(board, BLACK) = {}

\* the names registered in a stored record
RegisteredNames(model) ==
    {model.registered_players[i][2] : i \in 1..Len(model.registered_players)}

\* the calls of one operation that were answered with success
Succeeded(op) ==
    {c \in CallIds : calls[c].op = op /\ calls[c].pc = "done" /\ calls[c].answer = Success}

\* both calls were requests of the one operation and both have been answered
BothAnswered(op) ==
    \A c \in CallIds : calls[c].op = op /\ calls[c].pc = "done"

\* each call read the record while the other held no copy of it
OneAfterTheOther == \A c \in CallIds : calls[c].alone

\* C35: when two join requests on the same game have both been answered, at most
\* one was answered with success, the other failed as a registration on a game
\* that is no longer waiting, and every player answered with success is registered
\* in the stored record.
C35_OneJoinSucceeds ==
    BothAnswered("join_game") =>
        /\ Cardinality(Succeeded("join_game")) <= 1
        /\ Succeeded("join_game") # {} =>
               \A c \in CallIds \ Succeeded("join_game") : calls[c].answer = GameStateError
        /\ \A c \in Succeeded("join_game") : calls[c].player_name \in RegisteredNames(record)

\* C35: the same statement for two join requests handled one after the other; this
\* one holds.
C35_OneJoinSucceedsInTurn ==
    (BothAnswered("join_game") /\ OneAfterTheOther) =>
        /\ Cardinality(Succeeded("join_game")) <= 1
        /\ Succeeded("join_game") # {} =>
               \A c \in CallIds \ Succeeded("join_game") : calls[c].answer = GameStateError
        /\ \A c \in Succeeded("join_game") : calls[c].player_name \in RegisteredNames(record)

\* C35: two joins were handled one after the other on a waiting game: the first
\* succeeded and the second was refused.
C35_SecondJoinRefused ==
    /\ BothAnswered("join_game") /\ OneAfterTheOther
    /\ Cardinality(Succeeded("join_game")) = 1
    /\ \E c \in CallIds : calls[c].answer = GameStateError

\* C35: both joins were answered with success and the player of one of them is not
\* in the stored record.
C35_JoinedPlayerLost ==
    /\ Cardinality(Succeeded("join_game")) = 2
    /\ \E c \in CallIds : calls[c].player_name \notin RegisteredNames(record)

\* the moves of a stored record
LoggedMoves(model) == {model.moves_uci[i] : i \in 1..Len(model.moves_uci)}

\* the stored games start with an empty move log and an empty history, so the log
\* and the history hold one entry per move answered with success
AllMovesStored ==
    /\ \A c \in Succeeded("make_move") : calls[c].move_uci \in LoggedMoves(record)
    /\ Len(record.moves_uci) = Cardinality(Succeeded("make_move"))
    /\ Len(record.history_fen) = Cardinality(Succeeded("make_move"))

\* C36: when two make_move requests on the same game have both been answered, every
\* move answered with success is in the stored move log, and the log and the
\* history hold one entry for each of them.
C36_AnsweredMovesAreStored ==
    BothAnswered("make_move") => AllMovesStored

\* C36: the same statement for two make_move requests handled one after the other;
\* this one holds.
C36_AnsweredMovesStoredInTurn ==
    (BothAnswered("make_move") /\ OneAfterTheOther) => AllMovesStored

\* C36: two moves were made one after the other and both are stored.
C36_TwoMovesStored ==
    /\ BothAnswered("make_move") /\ OneAfterTheOther
    /\ Cardinality(Succeeded("make_move")) = 2
    /\ Len(record.moves_uci) = 2

\* C36: two moves were answered with success and one of them is not in the stored log.
C36_AnsweredMoveLost ==
    /\ Cardinality(Succeeded("make_move")) = 2
    /\ \E c \in CallIds : calls[c].move_uci \notin LoggedMoves(record)

\* the most steps a ray takes on the board
LongestRay == BOARD_DIMENSIONS[1] - 1

\* the square k steps from a square in a direction
StepFrom(square, dir, k) == Square(square[1] + k * dir[1], square[2] + k * dir[2])

\* the ray directions of the sliding pieces
RayDirections(piece_type) ==
    CASE piece_type = BISHOP -> Diagonals
      [] piece_type = ROOK -> StayOnRank \o StayOnFile
      [] piece_type = QUEEN -> Diagonals \o StayOnRank \o StayOnFile

SlidingSquares(b) ==
    {s \in Squares : piece(b, s).type \in {BISHOP, ROOK, QUEEN}}

\* the destinations the movement rule of the piece gives on one ray
DestinationsOnRay(b, square, dir) ==
    LET candidates == MOVEMENT_RULES(piece(b, square).type, square, b).val IN
    {candidates[i].to_square : i \in 1..Len(candidates)}
        \cap {StepFrom(square, dir, k) : k \in 1..LongestRay}

\* the squares of a ray up to the edge or the first occupied square, that square
\* taken in when it holds a piece of the other side
OpenRay(b, square, dir) ==
    {t \in {StepFrom(square, dir, k) : k \in 1..LongestRay} :
        /\ is_within_bounds(t)
        /\ \E k \in 1..LongestRay :
              /\ t = StepFrom(square, dir, k)
              /\ \A j \in 1..(k - 1) : piece(b, StepFrom(square, dir, j)).type = EMPTY
        /\ \/ piece(b, t).type = EMPTY
           \/ piece(b, t).color = OppositeColor(piece(b, square).color)}

\* every candidate of the piece starts on its square, lies on one of its rays, is a
\* plain move and is listed once
OnlyRayMoves(b, square) ==
    LET candidates == MOVEMENT_RULES(piece(b, square).type, square, b).val
        dirs == RayDirections(piece(b, square).type)
    IN /\ \A i \in 1..Len(candidates) :
             /\ candidates[i] = PlainMove(square, candidates[i].to_square)
             /\ \E d \in 1..Len(dirs) :
                    candidates[i].to_square \in DestinationsOnRay(b, square, dirs[d])
       /\ \A i, j \in 1..Len(candidates) : candidates[i] = candidates[j] => i = j

\* C37: for every bishop, rook and queen on the board and each of its ray
\* directions, the candidate destinations along the ray are the consecutive empty
\* squares up to the edge or the first occupied square, and that square exactly
\* when it holds a piece of the other side; nothing beyond it.
C37_RayStopsAtFirstOccupiedSquare ==
    \A square \in SlidingSquares(board) :
        /\ OnlyRayMoves(board, square)
        /\ \A d \in 1..Len(RayDirections(piece(board, square).type)) :
               LET dir == RayDirections(piece(board, square).type)[d] IN
               DestinationsOnRay(board, square, dir) = OpenRay(board, square, dir)

\* a ray of the piece on the square ends on a piece of the given side after at
\* least one empty square, with a further square behind it
RayBlockedBy(b, square, dir, color) ==
    \E k \in 2..(LongestRay - 1) :
        /\ is_within_bounds(StepFrom(square, dir, k + 1))
        /\ \A j \in 1..(k - 1) : piece(b, StepFrom(square, dir, j)).type = EMPTY
        /\ piece(b, StepFrom(square, dir, k)).type # EMPTY
        /\ piece(b, StepFrom(square, dir, k)).color = color

\* C37: after a move, the sliding pieces on the board have a ray ended by a piece
\* of their own side, a ray ended by a piece of the other side, each with squares
\* before and behind the blocker, and a ray running over empty squares to the edge.
C37_RaysWithMixedBlockers ==
    LET Rays == {r \in SlidingSquares(board) \X (1..Len(RayDirections(QUEEN))) :
                    r[2] <= Len(RayDirections(piece(board, r[1]).type))}
        dir(r) == RayDirections(piece(board, r[1]).type)[r[2]]
        own(r) == piece(board, r[1]).color
    IN /\ Len(moves) > 0
       /\ \E r \in Rays : RayBlockedBy(board, r[1], dir(r), own(r))
       /\ \E r \in Rays : RayBlockedBy(board, r[1], dir(r), OppositeColor(own(r)))
       /\ \E r \in Rays :
              /\ Cardinality(OpenRay(board, r[1], dir(r))) >= 2
              /\ \A t \in OpenRay(board, r[1], dir(r)) : piece(board, t).type = EMPTY

\* the ranks a pawn on the square has still to cross
RanksAhead(b, square) ==
    IF piece(b, square).color = WHITE THEN BOARD_DIMENSIONS[2] - square[2]
    ELSE square[2] - 1

\* what pawn moves and captures use up: one for every piece on the board and one
\* for every rank a pawn has still to cross
MaterialAndPawnRanks(b) ==
    Cardinality({s \in Squares : piece(b, s).type # EMPTY})
    + Cardinality({sk \in Squares \X (1..BOARD_DIMENSIONS[2]) :
                      /\ piece(b, sk[1]).type = PAWN
                      /\ sk[2] <= RanksAhead(b, sk[1])})

\* an accepted move uses up material or pawn ranks, or leaves them as they are and
\* adds one to the half-move clock
UsesUpOrCounts ==
    \/ MaterialAndPawnRanks(board') < MaterialAndPawnRanks(board)
    \/ /\ MaterialAndPawnRanks(board') = MaterialAndPawnRanks(board)
       /\ state'.half_move_clock = state.half_move_clock + 1

\* C38: every game ends: an accepted move either uses up material or pawn ranks,
\* of which there are finitely many, or adds one to the half-move clock, and the
\* status is no longer in-progress once the clock has reached the fifty-move limit.
C38_EveryGameEnds ==
    [][MoveAccepted =>
          /\ UsesUpOrCounts
          /\ state'.half_move_clock >= FiftyMoveLimit => status' # IN_PROGRESS]_vars

\* C38: the accepted moves of a game are finitely many: each uses up material or
\* pawn ranks or adds one to the clock, and where the clock has reached the limit
\* after a move with the status still in-progress no further move is accepted.
C38_AcceptedMovesRunOut ==
    [][MoveAccepted =>
          /\ UsesUpOrCounts
          /\ ~(Len(moves) > 0 /\ status = IN_PROGRESS
               /\ state.half_move_clock >= FiftyMoveLimit)]_vars

\* C38: a move has brought the clock to the limit and the game is still in
\* progress, with no terminal status set.
C38_InProgressAtTheLimit ==
    /\ last.op = "make_move" /\ last.accepted
    /\ state.half_move_clock >= FiftyMoveLimit
    /\ status = IN_PROGRESS

\* C38: a move has brought the clock to the limit and ended the game in a draw.
C38_DrawnAtTheLimit ==
    /\ last.op = "make_move" /\ last.accepted
    /\ state.half_move_clock >= FiftyMoveLimit
    /\ status = DRAW_FIFTY_HALF_MOVE_RULE

\* the squares of the rank strictly between two squares of it
StrictlyBetween(a, b) ==
    {s \in Squares : /\ s[2] = a[2]
                     /\ \/ a[1] < s[1] /\ s[1] < b[1]
                        \/ b[1] < s[1] /\ s[1] < a[1]}

\* the squares a list holds
SquaresOf(list) == {list[i] : i \in 1..Len(list)}

\* the outcome the call should have: a ValueError across ranks, otherwise a return
\* of the squares strictly between, the same ones as for the squares swapped
OpenInterval(a, b, outcome) ==
    IF a[2] # b[2] THEN outcome.err = ValueError
    ELSE /\ outcome.err = None
         /\ SquaresOf(outcome.val) = StrictlyBetween(a, b)
         /\ Len(outcome.val) = Cardinality(StrictlyBetween(a, b))
         /\ squares_between_on_rank(b, a).err = None
         /\ SquaresOf(squares_between_on_rank(b, a).val) = SquaresOf(outcome.val)

\* C39: squares_between_on_rank(a, b) returns for every two squares of one rank,
\* equal and adjacent ones included, with exactly the squares strictly between them
\* and the same squares for (b, a); for squares of different ranks it raises
\* ValueError.
C39_SquaresBetweenIsTheOpenInterval ==
    calls[1].pc = "done" =>
        OpenInterval(calls[1].from_square, calls[1].to_square, calls[1].outcome)

\* C39: the same statement for two different squares; this one holds.
C39_OpenIntervalOfDistinctSquares ==
    (calls[1].pc = "done" /\ calls[1].from_square # calls[1].to_square) =>
        OpenInterval(calls[1].from_square, calls[1].to_square, calls[1].outcome)

\* C39: a call on one square twice does not return.
C39_SameSquareNeverReturns ==
    /\ calls[1].pc = "done"
    /\ calls[1].from_square = calls[1].to_square
    /\ calls[1].outcome.err = NonTermination

\* C39: a call on two squares of a rank, the second to the left of the first,
\* has returned the squares between them.
C39_LeftwardCallReturned ==
    /\ calls[1].pc = "done"
    /\ calls[1].from_square[2] = calls[1].to_square[2]
    /\ calls[1].to_square[1] < calls[1].from_square[1] - 1
    /\ calls[1].outcome.err = None
    /\ Len(calls[1].outcome.val) > 0

====
